---- MODULE Spec2Model ----
(***************************************************************************)
(* Model of gamza-lotto-app: the pure helpers of utils.py (number          *)
(* generation, QR URL decoding, prize evaluation, the fetch of a draw), the *)
(* records of database.py and the page handlers of app.py that use them.   *)
(*                                                                         *)
(* Python values are modelled as follows.                                  *)
(*   str    a sequence of one-character strings                            *)
(*   list   a sequence                                                     *)
(*   set    a set                                                          *)
(*   dict   a record holding the <<key, value>> pairs in insertion order   *)
(*   None   the record None                                                *)
(* A value held where values of several types can occur is a record with a *)
(* type field; a str there is either JSON text (json_dumps) or a plain     *)
(* text (Str), and json_loads tells the two apart.                         *)
(* The prize strings of the source are Korean literals; the module uses    *)
(* ASCII names for them: "1st".."5th" for the five ranks, "no-win" for the *)
(* losing result and "unconfirmed" for the initial status.                 *)
(***************************************************************************)
EXTENDS Integers, Sequences, FiniteSets, TLC

VARIABLES
    pc,               \* "call" before the operation ran, "done" after it
    op,               \* the operation this behaviour exercises
    user_numbers,     \* check_winning argument
    winning_numbers,  \* check_winning argument
    bonus_number,     \* check_winning argument
    tier,             \* check_winning return value
    url,              \* parse_qr_url argument
    result,           \* parse_qr_url return value
    stdout,           \* the last line parse_qr_url printed
    numbers_dict,     \* the bundle built by the QR page's save button
    draw_in,          \* round trip: the draw number that was encoded
    bundle_in,        \* round trip: the combinations that were encoded
    exclude,          \* generate_lotto_numbers argument
    count,            \* generate_lotto_numbers argument / the page's slider
    rng,              \* state of the random module: the values it gives next
    combinations,     \* generate_lotto_numbers return value
    page,             \* what the page handler that ran last ended with
    recommended,      \* the rows of table recommended_numbers
    user_id,          \* st.session_state.user_id: None or the user's id
    purchased,        \* the rows of table purchased_numbers
    draw_results,     \* the rows of table draw_results (the cache)
    current_winning,  \* st.session_state.current_winning
    waiting,          \* the handler that waits for the lottery site, if one does
    other_waiting     \* the handler of another session that waits for the site

checkVars == <<user_numbers, winning_numbers, bonus_number, tier>>
qrVars == <<url, result, stdout, numbers_dict, draw_in, bundle_in>>
genVars == <<exclude, count, rng, combinations, page, recommended>>
appVars == <<user_id, purchased, draw_results, current_winning, waiting,
             other_waiting>>

vars == <<pc, op, checkVars, qrVars, genVars, appVars>>

(***************************************************************************)
(* Bounds of the model.                                                    *)
(***************************************************************************)
CheckBalls == 12     \* check_winning inputs are drawn from 1..CheckBalls
WinShifts == 2       \* winning sets are {k+1..k+6} for k in 0..WinShifts
MaxShapeSegs == 2    \* segments per v value when every segment shape is tried
MaxManySegs == 6     \* segments per v value when few segment shapes are tried
RngStates == 3       \* values each call of random.sample may be given
MaxGenerations == 2  \* runs of the recommendation on the application's pages

(***************************************************************************)
(* Python values and helpers.                                              *)
(***************************************************************************)
None == [type |-> "None"]

\* the variables of the operations a behaviour does not exercise
IdleCheck ==
    /\ user_numbers = <<>>
    /\ winning_numbers = <<>>
    /\ bonus_number = 0
    /\ tier = "unset"

IdleQR ==
    /\ url = None
    /\ result = None
    /\ stdout = ""
    /\ numbers_dict = None
    /\ draw_in = 0
    /\ bundle_in = <<>>

IdleGen ==
    /\ exclude = None
    /\ count = 0
    /\ rng = <<>>
    /\ combinations = None
    /\ page = None
    /\ recommended = <<>>

\* a user is logged in and no handler is running
IdleApp ==
    /\ user_id = [type |-> "int", val |-> 1]
    /\ purchased = <<>>
    /\ draw_results = <<>>
    /\ current_winning = None
    /\ waiting = None
    /\ other_waiting = None

\* a dict, as its items in insertion order
Dict(pairs) == [type |-> "dict", items |-> pairs]

List(l) == [type |-> "list", items |-> l]

Set(S) == [type |-> "set", items |-> S]

PyInt(n) == [type |-> "int", val |-> n]

\* an exception that leaves the function
Raise(name) == [type |-> name]

Exceptions ==
    {"TypeError", "IndexError", "AttributeError", "ValueError", "JSONDecodeError"}

\* bool(value)
Truthy(value) ==
    IF value.type = "None" THEN FALSE
    ELSE IF value.type = "int" THEN value.val # 0
    ELSE IF value.type = "set" THEN value.items # {}
    ELSE IF value.type \in {"list", "dict"} THEN value.items # <<>>
    ELSE IF value.type = "str" /\ "text" \in DOMAIN value THEN value.text # ""
    ELSE TRUE

Range(s) == {s[i] : i \in 1..Len(s)}

Min(a, b) == IF a < b THEN a ELSE b

RECURSIVE SetToSortedSeq(_)
SetToSortedSeq(S) ==
    IF S = {} THEN <<>>
    ELSE LET m == CHOOSE x \in S : \A y \in S : x <= y
         IN <<m>> \o SetToSortedSeq(S \ {m})

KSubsets(S, k) == {T \in SUBSET S : Cardinality(T) = k}

(***************************************************************************)
(* utils.check_winning                                                     *)
(***************************************************************************)
\* the 5-match branches in the wrong order: the bonus is never consulted
check_winning_no_bonus(user, winning, bonus) ==
    LET match_count == Cardinality(Range(user) \cap Range(winning))
    IN  IF match_count = 6 THEN "1st"
        ELSE IF match_count = 5 THEN "3rd"
        ELSE IF match_count = 4 THEN "4th"
        ELSE IF match_count = 3 THEN "5th"
        ELSE "no-win"

check_winning(user, winning, bonus) ==
    LET user_set == Range(user)
        winning_set == Range(winning)
        match_count == Cardinality(user_set \cap winning_set)
        has_bonus == bonus \in user_set
    IN  IF match_count = 6 THEN "1st"
        ELSE IF match_count = 5 /\ has_bonus THEN "2nd"
        ELSE IF match_count = 5 THEN "3rd"
        ELSE IF match_count = 4 THEN "4th"
        ELSE IF match_count = 3 THEN "5th"
        ELSE "no-win"

(***************************************************************************)
(* Python str, int() and str() on the characters the model uses.  The      *)
(* alphabet is the ASCII digits, the separator "s", a letter "x", a space, *)
(* the signs "+" and "-", and the underscore.                              *)
(***************************************************************************)
DigitChars == <<"0", "1", "2", "3", "4", "5", "6", "7", "8", "9">>

Digits == Range(DigitChars)

DigitVal(c) == CHOOSE n \in 0..9 : DigitChars[n + 1] = c

\* int(s) for a str s made of decimal digits only
RECURSIVE IntOfDigits(_)
IntOfDigits(s) ==
    IF s = <<>> THEN 0
    ELSE IntOfDigits(SubSeq(s, 1, Len(s) - 1)) * 10 + DigitVal(s[Len(s)])

\* str(n) for an int n
RECURSIVE str(_)
str(n) ==
    IF n < 0 THEN <<"-">> \o str(0 - n)
    ELSE IF n < 10 THEN <<DigitChars[n + 1]>>
    ELSE str(n \div 10) \o <<DigitChars[(n % 10) + 1]>>

\* s.strip() for a str whose only whitespace character is the space
RECURSIVE strip(_)
strip(s) ==
    IF s = <<>> THEN s
    ELSE IF s[1] = " " THEN strip(Tail(s))
    ELSE IF s[Len(s)] = " " THEN strip(SubSeq(s, 1, Len(s) - 1))
    ELSE s

\* int(s) of Python: surrounding whitespace is stripped, one sign is
\* allowed, and single underscores may separate digits.  ok = FALSE stands
\* for the ValueError int() raises on anything else.
int(s) ==
    LET t == strip(s)
        signed == t # <<>> /\ t[1] \in {"+", "-"}
        body == IF signed THEN Tail(t) ELSE t
        wellFormed ==
            /\ body # <<>>
            /\ \A i \in 1..Len(body) : body[i] \in Digits \cup {"_"}
            /\ body[1] \in Digits
            /\ body[Len(body)] \in Digits
            /\ \A i \in 1..(Len(body) - 1) : ~(body[i] = "_" /\ body[i + 1] = "_")
        magnitude == IntOfDigits(SelectSeq(body, LAMBDA c : c \in Digits))
    IN  IF ~wellFormed THEN [ok |-> FALSE, val |-> 0]
        ELSE IF signed /\ t[1] = "-" THEN [ok |-> TRUE, val |-> 0 - magnitude]
        ELSE [ok |-> TRUE, val |-> magnitude]

\* sorted(list) for a list of ints
RECURSIVE sorted(_)
sorted(l) ==
    IF l = <<>> THEN <<>>
    ELSE LET i == CHOOSE j \in 1..Len(l) : \A k \in 1..Len(l) : l[j] <= l[k]
         IN <<l[i]>> \o sorted(SubSeq(l, 1, i - 1) \o SubSeq(l, i + 1, Len(l)))

\* s[lo:hi] for 0 <= lo: the slice stops at the end of s
slice(s, lo, hi) == SubSeq(s, lo + 1, Min(hi, Len(s)))

\* s.split(sep) for a one-character separator
RECURSIVE split(_, _)
split(s, sep) ==
    IF \A i \in 1..Len(s) : s[i] # sep THEN <<s>>
    ELSE LET i == CHOOSE j \in 1..Len(s) :
                      s[j] = sep /\ \A k \in 1..(j - 1) : s[k] # sep
         IN <<SubSeq(s, 1, i - 1)>> \o split(SubSeq(s, i + 1, Len(s)), sep)

\* re.match(r'^(\d+)', s).group(1): the longest leading run of digits;
\* the empty str stands for "no match"
RECURSIVE LeadingDigits(_)
LeadingDigits(s) ==
    IF s = <<>> \/ s[1] \notin Digits THEN <<>>
    ELSE <<s[1]>> \o LeadingDigits(Tail(s))

(***************************************************************************)
(* utils.format_number and the vendor's v format of the parse_qr_url       *)
(* docstring: <draw>s<6 two-digit fields>[s<6 two-digit fields>]...        *)
(***************************************************************************)
\* f"{num:02d}"
format_number(num) ==
    IF 0 <= num /\ num < 10 THEN <<"0">> \o str(num) ELSE str(num)

RECURSIVE EncodeFields(_)
EncodeFields(numbers) ==
    IF numbers = <<>> THEN <<>>
    ELSE format_number(Head(numbers)) \o EncodeFields(Tail(numbers))

RECURSIVE JoinSegments(_)
JoinSegments(segments) ==
    IF segments = <<>> THEN <<>>
    ELSE <<"s">> \o Head(segments) \o JoinSegments(Tail(segments))

(***************************************************************************)
(* utils.parse_qr_url.  A URL is modelled by what urlparse and parse_qs    *)
(* make of it: whether its netloc has an unbalanced bracket (urlparse      *)
(* raises ValueError), and its query as the list of name/value pairs after *)
(* percent-decoding.                                                       *)
(***************************************************************************)
Url(pairs) == [type |-> "str", bracket |-> FALSE, query |-> pairs]

\* urlparse(url).query
urlparse(u) ==
    IF u.bracket THEN [raised |-> TRUE, query |-> <<>>]
    ELSE [raised |-> FALSE, query |-> u.query]

\* parse_qs(query): blank values are dropped, the values of a name are
\* kept in order of appearance
parse_qs(query) ==
    LET kept == SelectSeq(query, LAMBDA pr : pr[2] # <<>>)
        names == {kept[i][1] : i \in 1..Len(kept)}
        valuesOf(name) ==
            LET mine == SelectSeq(kept, LAMBDA pr : pr[1] = name)
            IN [i \in 1..Len(mine) |-> mine[i][2]]
    IN  [name \in names |-> valuesOf(name)]

\* the 5 of segments[:5]: a ticket holds at most 5 combinations
MaxCombinations == 5

\* remaining = v_param[len(str(draw_number)):]
Remaining(v_param, draw_number) ==
    slice(v_param, Len(str(draw_number)), Len(v_param))

\* the slice forgotten: every segment is walked
ConsideredSegments_all(segments) == segments

\* segments[:5]
ConsideredSegments(segments) == slice(segments, 0, MaxCombinations)

\* off by one: a trailing single character counts as a window
WindowFits_trailing(i, segment) == i + 1 <= Len(segment)

\* if i + 2 <= len(segment)
WindowFits(i, segment) == i + 2 <= Len(segment)

\* off by one at the top of the range
InBallRange_below45(num) == 1 <= num /\ num < 45

\* if 1 <= num <= 45
InBallRange(num) == 1 <= num /\ num <= 45

\* for i in range(0, len(segment), 2): the numbers list of one segment
RECURSIVE WindowNumbers(_, _)
WindowNumbers(segment, i) ==
    IF i >= Len(segment) THEN <<>>
    ELSE LET num_str == slice(segment, i, i + 2)
             num == int(num_str)
             here == IF WindowFits(i, segment) /\ num.ok /\ InBallRange(num.val)
                     THEN <<num.val>> ELSE <<>>
         IN here \o WindowNumbers(segment, i + 2)

\* at least 6 instead of exactly 6
Combination_at_least(numbers) ==
    IF Len(numbers) >= 6 THEN <<sorted(numbers)>> ELSE <<>>

\* if len(numbers) == 6: numbers_list.append(sorted(numbers))
Combination(numbers) ==
    IF Len(numbers) = 6 THEN <<sorted(numbers)>> ELSE <<>>

\* for segment in segments[:5]: the numbers_list after the loop
RECURSIVE NumbersList(_)
NumbersList(segments) ==
    IF segments = <<>> THEN <<>>
    ELSE LET segment == Head(segments)
             here == IF segment = <<>> THEN <<>>
                     ELSE Combination(WindowNumbers(segment, 0))
         IN here \o NumbersList(Tail(segments))

\* the statements inside the try block; raised = TRUE stands for an
\* exception leaving the block
ParseBody(u) ==
    LET parsed_url == urlparse(u)
        query_params == parse_qs(parsed_url.query)
        v_param == query_params["v"][1]
        draw_match == LeadingDigits(v_param)
        draw_number == IntOfDigits(draw_match)
        remaining == Remaining(v_param, draw_number)
        segments == Tail(split(remaining, "s"))
        numbers_list == NumbersList(ConsideredSegments(segments))
    IN  IF parsed_url.raised
        THEN [raised |-> TRUE, ret |-> None, out |-> "ValueError"]
        ELSE IF "v" \notin DOMAIN query_params
        THEN [raised |-> FALSE, ret |-> None, out |-> "v parameter not found"]
        ELSE IF draw_match = <<>>
        THEN [raised |-> FALSE, ret |-> None, out |-> "Draw number not found"]
        ELSE IF remaining = <<>> \/ remaining[1] # "s"
        THEN [raised |-> FALSE, ret |-> None,
              out |-> "Invalid format after draw number"]
        ELSE IF draw_number # 0 /\ Len(numbers_list) > 0
        THEN [raised |-> FALSE,
              ret |-> [type |-> "dict", draw_number |-> draw_number,
                       numbers |-> numbers_list],
              out |-> "Parse success"]
        ELSE [raised |-> FALSE, ret |-> None, out |-> "Parse failed"]

\* no handler: the exception leaves parse_qr_url
ExceptException_none(body) == body

\* except Exception as e: ... return None
ExceptException(body) ==
    IF body.raised
    THEN [raised |-> FALSE, ret |-> None, out |-> "QR URL parsing error"]
    ELSE body

parse_qr_url(u) == ExceptException(ParseBody(u))

\* app.py QR page: labels and the dict comprehension of the save button;
\* labels[i] raises IndexError past "E", which the handler catches
labels == <<"A", "B", "C", "D", "E">>

NumbersDict(numbers_list) ==
    IF Len(numbers_list) > Len(labels) THEN None
    ELSE Dict([i \in 1..Len(numbers_list) |-> <<labels[i], numbers_list[i]>>])

(***************************************************************************)
(* utils.generate_lotto_numbers.  A call of random.sample(population, k)   *)
(* returns k members at distinct positions of the population, any k of     *)
(* them, whatever the calls before it returned.  The state of the random   *)
(* module is modelled by what it holds in store: the sequence of the       *)
(* values it gives to the coming calls, one value a call.  A value is a    *)
(* number below RngModulus, the number of ways to draw 6 of 45 numbers, so *)
(* that every sample is the sample of some value; the specifications       *)
(* follow RngStates values for each call.                                  *)
(***************************************************************************)
\* the number of k-subsets of n positions
RECURSIVE Choose(_, _)
Choose(n, k) ==
    IF k = 0 THEN 1
    ELSE IF k > n THEN 0
    ELSE (Choose(n - 1, k - 1) * n) \div k

\* the values the generator gives: 0 .. RngModulus - 1
RngModulus == Choose(45, 6)

\* the rank-th k-subset of the positions i..n, in lexicographic order
RECURSIVE Unrank(_, _, _, _)
Unrank(n, k, rank, i) ==
    IF k = 0 THEN <<>>
    ELSE IF rank < Choose(n - i, k - 1)
    THEN <<i>> \o Unrank(n, k - 1, rank, i + 1)
    ELSE Unrank(n, k, rank - Choose(n - i, k - 1), i + 1)

\* random.sample(population, k) in generator state r, for k <= len(population):
\* the value the generator gives picks the positions, and whether they come
\* in descending order or in an order that starts in the middle
random_sample(population, k, r) ==
    LET n == Len(population)
        total == Choose(n, k)
        positions == Unrank(n, k, Head(r) % total, 1)
        turned == [i \in 1..k |-> positions[((i + (k \div 2) - 1) % k) + 1]]
    IN  IF (Head(r) \div total) % 2 = 0
        THEN [i \in 1..k |-> population[positions[k + 1 - i]]]
        ELSE [i \in 1..k |-> population[turned[i]]]

\* the state after a call: the value given is used up
NextRng(r) == Tail(r)

\* the i-th of the values that are followed, spread over 0 .. RngModulus - 1
Seed(i) == (i * (RngModulus \div RngStates) + i) % RngModulus

Seeds == {Seed(i) : i \in 0..(RngStates - 1)}

\* the n-th generator state that holds len values: the digits of n in base
\* RngStates name the values
StateNo(n, len) ==
    [i \in 1..len |-> Seed((n \div (RngStates ^ (i - 1))) % RngStates)]

\* the generator states that hold len of the values followed
States(len) == {StateNo(n, len) : n \in 0..((RngStates ^ len) - 1)}

\* states spread over States(len), howMany of them
SomeStates(len, howMany) ==
    {StateNo(j * (((RngStates ^ len) \div howMany) + 1), len) :
        j \in 0..(howMany - 1)}

\* the members of a set or a list: what 'n in value' tests
Members(value) == IF value.type = "list" THEN Range(value.items) ELSE value.items

\* [n for n in range(1, 46) if n in exclude]
Available_inverted(excl) == SetToSortedSeq({n \in 1..45 : n \in Members(excl)})

\* [n for n in range(1, 46) if n not in exclude]
Available(excl) == SetToSortedSeq({n \in 1..45 : n \notin Members(excl)})

\* len(available) <= 6
TooFew_six(available) == Len(available) <= 6

\* len(available) < 6
TooFew(available) == Len(available) < 6

\* for i in range(count): combinations[labels[i]] = sorted(random.sample(available, 6))
RECURSIVE GenerateLoop(_, _, _, _)
GenerateLoop(available, i, cnt, r) ==
    IF i >= cnt THEN <<>>
    ELSE << <<labels[i + 1], sorted(random_sample(available, 6, r))>> >>
            \o GenerateLoop(available, i + 1, cnt, NextRng(r))

\* the state after a number of calls
RECURSIVE Advance(_, _)
Advance(r, calls) == IF calls = 0 THEN r ELSE Advance(NextRng(r), calls - 1)

\* returns the value (or the exception raised) and the generator state left
generate_lotto_numbers(excl, cnt, r) ==
    IF Truthy(excl) /\ excl.type = "int"
    THEN [ret |-> Raise("TypeError"), rng |-> r]
    ELSE LET available == IF Truthy(excl) THEN Available(excl)
                          ELSE SetToSortedSeq(1..45)
         IN  IF TooFew(available)
             THEN [ret |-> IF cnt = 1 THEN List(<<>>) ELSE Dict(<<>>), rng |-> r]
             ELSE IF cnt = 1
             THEN [ret |-> List(sorted(random_sample(available, 6, r))),
                   rng |-> NextRng(r)]
             ELSE IF cnt > Len(labels)
             THEN [ret |-> Raise("IndexError"), rng |-> Advance(r, Len(labels) + 1)]
             ELSE [ret |-> Dict(GenerateLoop(available, 0, cnt, r)),
                   rng |-> Advance(r, cnt)]

(***************************************************************************)
(* utils.generate_excluding_numbers: written on its own, not by a call of  *)
(* generate_lotto_numbers.                                                 *)
(***************************************************************************)
\* [n for n in range(1, 45) if n not in excluded_numbers]
AvailableNumbers_to44(excluded_numbers) ==
    SetToSortedSeq({n \in 1..44 : n \notin Members(excluded_numbers)})

\* [n for n in range(1, 46) if n not in excluded_numbers]
AvailableNumbers(excluded_numbers) ==
    SetToSortedSeq({n \in 1..45 : n \notin Members(excluded_numbers)})

\* range(count - 1)
ExcludingRange_short(cnt) == cnt - 1

\* range(count)
ExcludingRange(cnt) == cnt

\* for i in range(count):
\*     numbers = sorted(random.sample(available_numbers, 6))
\*     combinations[labels[i]] = numbers
RECURSIVE ExcludingLoop(_, _, _, _)
ExcludingLoop(available_numbers, i, cnt, r) ==
    IF i >= ExcludingRange(cnt) THEN <<>>
    ELSE LET numbers == sorted(random_sample(available_numbers, 6, r))
         IN  << <<labels[i + 1], numbers>> >>
                \o ExcludingLoop(available_numbers, i + 1, cnt, NextRng(r))

\* returns the value (or the exception raised) and the generator state left
generate_excluding_numbers(excluded_numbers, cnt, r) ==
    IF excluded_numbers.type \notin {"list", "set"}
    THEN [ret |-> Raise("TypeError"), rng |-> r]
    ELSE LET available_numbers == AvailableNumbers(excluded_numbers)
         IN  IF Len(available_numbers) < 6
             THEN [ret |-> Dict(<<>>), rng |-> r]
             ELSE IF cnt > Len(labels)
             THEN [ret |-> Raise("IndexError"), rng |-> Advance(r, Len(labels) + 1)]
             ELSE [ret |-> Dict(ExcludingLoop(available_numbers, 0, cnt, r)),
                   rng |-> Advance(r, cnt)]

\* json.dumps(value, ensure_ascii=False): the JSON text of value, a str
json_dumps(value) == [type |-> "str", json |-> value]

\* a str that is no JSON text
Str(text) == [type |-> "str", text |-> text]

\* json.loads(s): only a str is accepted, and only JSON text is decoded
json_loads(s) ==
    IF s.type # "str" THEN Raise("TypeError")
    ELSE IF "json" \in DOMAIN s THEN s.json
    ELSE Raise("JSONDecodeError")

(***************************************************************************)
(* database.py: the records.  A row holds the columns; the numbers and     *)
(* winning_numbers properties convert between the Text column and the      *)
(* Python value.                                                           *)
(***************************************************************************)
\* Column(String(20), default=...)
DefaultStatus_blank == ""

DefaultStatus == "unconfirmed"

\* the numbers property of RecommendedNumber and PurchasedNumber: getter
numbers_get(column) == IF column.type = "str" THEN json_loads(column) ELSE column

\* the numbers property: setter
numbers_set(value) ==
    IF value.type = "dict" THEN json_dumps(value)
    ELSE IF value.type = "str" THEN value
    ELSE json_dumps(value)

\* the winning_numbers property of DrawResult: getter
winning_numbers_get(column) ==
    IF column.type = "str" THEN json_loads(column) ELSE column

\* the winning_numbers property: setter
winning_numbers_set(value) ==
    IF value.type = "list" THEN json_dumps(value)
    ELSE IF value.type = "str" THEN value
    ELSE json_dumps(value)

\* Column(Integer, primary_key=True, autoincrement=True)
NextId(rows) ==
    IF rows = <<>> THEN 1
    ELSE 1 + CHOOSE m \in {rows[i].id : i \in 1..Len(rows)} :
                 \A i \in 1..Len(rows) : rows[i].id <= m

(***************************************************************************)
(* Specification SpecCheck: one call of check_winning.                     *)
(***************************************************************************)
CheckTickets == {SetToSortedSeq(T) : T \in KSubsets(1..CheckBalls, 6)}

CheckWinningSets == {SetToSortedSeq((k + 1)..(k + 6)) : k \in 0..WinShifts}

InitCheck ==
    /\ pc = "call"
    /\ op = "check_winning"
    /\ user_numbers \in CheckTickets
    /\ winning_numbers \in CheckWinningSets
    /\ bonus_number \in 1..CheckBalls
    /\ tier = "unset"
    /\ IdleQR
    /\ IdleGen
    /\ IdleApp

CheckWinning ==
    /\ pc = "call"
    /\ op = "check_winning"
    /\ tier' = check_winning(user_numbers, winning_numbers, bonus_number)
    /\ pc' = "done"
    /\ UNCHANGED <<op, user_numbers, winning_numbers, bonus_number, qrVars, genVars, appVars>>

NextCheck == CheckWinning

SpecCheck == InitCheck /\ [][NextCheck]_vars

(***************************************************************************)
(* Specification SpecQR: the QR page analyses one URL with parse_qr_url    *)
(* and, after a successful decode, the save button builds numbers_dict.    *)
(***************************************************************************)
SeqsUpTo(S, n) == UNION {[1..k -> S] : k \in 0..n}

SegA == EncodeFields(<<4, 9, 13, 18, 24, 33>>)
SegB == EncodeFields(<<45, 1, 30, 10, 9, 2>>)

\* every segment shape: well formed, unsorted, repeated numbers, 11 and 13
\* characters, 7 windows of which 6 or 7 are valid, 6 windows of which 5
\* are valid, empty, and windows holding a space, a sign, a letter or an
\* underscore
SegmentShapes ==
    { SegA, SegB,
      EncodeFields(<<7, 7, 13, 18, 24, 33>>),
      EncodeFields(<<4, 9, 13, 18, 24>>) \o <<"3">>,
      SegA \o <<"0">>,
      SegA \o <<"4", "6">>,
      <<"0", "0">> \o SegA,
      SegA \o <<"4", "5">>,
      EncodeFields(<<4, 9, 13, 18, 24, 46>>),
      <<>>,
      <<" ", "4">> \o EncodeFields(<<9, 13, 18, 24, 33>>),
      <<"+", "4">> \o EncodeFields(<<9, 13, 18, 24, 33>>),
      <<"-", "4">> \o SegA,
      <<"x", "4">> \o SegA,
      <<"4", "_">> \o EncodeFields(<<9, 13, 18, 24, 33>>) }

FewSegmentShapes == {SegA, SegB, <<>>, EncodeFields(<<4, 9, 13, 18, 24>>) \o <<"3">>}

\* what precedes the first separator: a draw number, one with leading
\* zeros, zero, nothing, a letter, digits followed by a letter
Heads ==
    { str(1194), str(7), <<"0", "0", "7">>, <<"0">>, <<>>,
      <<"x", "7">>, <<"1", "2", "x">> }

FewHeads == {str(1194), <<"0", "1", "0">>}

VValues ==
    {h \o JoinSegments(segs) : h \in Heads, segs \in SeqsUpTo(SegmentShapes, MaxShapeSegs)}
    \cup
    {h \o JoinSegments(segs) : h \in FewHeads, segs \in SeqsUpTo(FewSegmentShapes, MaxManySegs)}

GoodV == str(1194) \o <<"s">> \o SegA
OtherV == str(5) \o <<"s">> \o SegB

\* URLs whose query is more than one v parameter: no query at all, another
\* parameter only, a blank v, v given twice, v after another parameter, and
\* a URL urlparse rejects
OddUrls ==
    { Url(<<>>),
      Url(<< <<"w", <<"1">> >> >>),
      Url(<< <<"v", <<>> >> >>),
      Url(<< <<"v", <<>> >>, <<"v", GoodV>> >>),
      Url(<< <<"v", OtherV>>, <<"v", GoodV>> >>),
      Url(<< <<"w", GoodV>>, <<"v", OtherV>> >>),
      [type |-> "str", bracket |-> TRUE, query |-> << <<"v", GoodV>> >>] }

\* a ticket of five combinations that share no number: 30 numbers in all
FullTicketV ==
    str(1194) \o JoinSegments(<< EncodeFields(<<1, 2, 3, 4, 5, 6>>),
                                 EncodeFields(<<7, 8, 9, 10, 11, 12>>),
                                 EncodeFields(<<13, 14, 15, 16, 17, 18>>),
                                 EncodeFields(<<19, 20, 21, 22, 23, 24>>),
                                 EncodeFields(<<40, 41, 42, 43, 44, 45>>),
                                 EncodeFields(<<25, 26, 27, 28, 29, 30>>) >>)

QRUrls == {Url(<< <<"v", v>> >>) : v \in VValues \cup {FullTicketV}} \cup OddUrls

InitQR ==
    /\ pc = "call"
    /\ op = "parse_qr_url"
    /\ url \in QRUrls
    /\ result = None
    /\ stdout = ""
    /\ numbers_dict = None
    /\ draw_in = 0
    /\ bundle_in = <<>>
    /\ IdleCheck
    /\ IdleGen
    /\ IdleApp

\* result = parse_qr_url(qr_url)
QRAnalyze ==
    /\ pc = "call"
    /\ op \in {"parse_qr_url", "roundtrip"}
    /\ LET r == parse_qr_url(url)
       IN /\ result' = r.ret
          /\ stdout' = r.out
          /\ pc' = IF r.raised THEN "crashed" ELSE "done"
    /\ UNCHANGED <<op, url, numbers_dict, draw_in, bundle_in, checkVars, genVars, appVars>>

\* purchased = PurchasedNumber(user_id=..., draw_number=draw_number);
\* purchased.numbers = numbers_dict; session.add(purchased); session.commit().
\* When the dict comprehension raises, the handler reports it and adds no row
AddPurchase(rows, uid, draw_number, numbers_list) ==
    IF NumbersDict(numbers_list) = None THEN rows
    ELSE Append(rows, [id |-> NextId(rows), user_id |-> uid,
                       draw_number |-> draw_number,
                       numbers |-> numbers_set(NumbersDict(numbers_list)),
                       winning_status |-> DefaultStatus])

\* if result: ... the save button: the bundle is built and the purchase is
\* stored for the logged-in user
QRSave ==
    /\ pc = "done"
    /\ op \in {"parse_qr_url", "roundtrip"}
    /\ result # None
    /\ numbers_dict' = NumbersDict(result.numbers)
    /\ purchased' = AddPurchase(purchased, user_id.val, result.draw_number,
                                result.numbers)
    /\ pc' = "saved"
    /\ UNCHANGED <<op, url, result, stdout, draw_in, bundle_in, checkVars, genVars,
                   user_id, draw_results, current_winning, waiting,
                   other_waiting>>

\* for i in range(5): numbers = generate_lotto_numbers(exclude=all_numbers)
RECURSIVE RecommendedSets(_, _, _)
RecommendedSets(all_numbers, i, r) ==
    IF i >= 5 THEN <<>>
    ELSE LET g == generate_lotto_numbers(all_numbers, 1, r)
         IN  <<g.ret.items>> \o RecommendedSets(all_numbers, i + 1, g.rng)

\* the numbers of the first combination only
UnionOf_first(numbers_list) ==
    IF numbers_list = <<>> THEN {} ELSE Range(Head(numbers_list))

\* all_numbers = set(); for numbers in numbers_list: all_numbers.update(numbers)
RECURSIVE UnionOf(_)
UnionOf(numbers_list) ==
    IF numbers_list = <<>> THEN {}
    ELSE Range(Head(numbers_list)) \cup UnionOf(Tail(numbers_list))

\* states of the random module in which the recommendation button is pressed
RecommendSeeds == 4

\* the recommendation button under a decoded ticket: five combinations
\* without the ticket's numbers, from whatever state the random module is in
QRRecommend ==
    /\ pc = "done"
    /\ op = "parse_qr_url"
    /\ result # None
    /\ \E r \in SomeStates(5, RecommendSeeds) :
          LET all_numbers == Set(UnionOf(result.numbers))
          IN  /\ exclude' = all_numbers
              /\ combinations' = List(RecommendedSets(all_numbers, 0, r))
              /\ rng' = Advance(r, 5)
    /\ pc' = "recommended"
    /\ UNCHANGED <<op, url, result, stdout, numbers_dict, draw_in, bundle_in,
                   count, page, recommended, checkVars, appVars>>

NextQR == QRAnalyze \/ QRSave \/ QRRecommend

SpecQR == InitQR /\ [][NextQR]_vars

(***************************************************************************)
(* Specification SpecRT: a bundle is encoded in the vendor's v format,     *)
(* then decoded and saved by the QR page.                                  *)
(***************************************************************************)
\* '<draw>s<12 digits>[s<12 digits>...]'
EncodeV(draw, bundle) ==
    str(draw) \o JoinSegments([k \in 1..Len(bundle) |-> EncodeFields(bundle[k])])

RTNumberSets ==
    { <<1, 2, 9, 10, 44, 45>>, <<4, 9, 13, 18, 24, 33>>,
      <<2, 9, 10, 33, 44, 45>>, <<1, 2, 3, 4, 5, 6>> }

RTDraws == {1, 10, 1194}

RTBundles == UNION {[1..k -> RTNumberSets] : k \in 1..MaxCombinations}

InitRT ==
    /\ pc = "encode"
    /\ op = "roundtrip"
    /\ draw_in \in RTDraws
    /\ bundle_in \in RTBundles
    /\ url = None
    /\ result = None
    /\ stdout = ""
    /\ numbers_dict = None
    /\ IdleCheck
    /\ IdleGen
    /\ IdleApp

Encode ==
    /\ pc = "encode"
    /\ op = "roundtrip"
    /\ url' = Url(<< <<"v", EncodeV(draw_in, bundle_in)>> >>)
    /\ pc' = "call"
    /\ UNCHANGED <<op, result, stdout, numbers_dict, draw_in, bundle_in,
                   checkVars, genVars, appVars>>

NextRT == Encode \/ QRAnalyze \/ QRSave

SpecRT == InitRT /\ [][NextRT]_vars

(***************************************************************************)
(* Specification SpecGen: one call of generate_lotto_numbers or of         *)
(* generate_excluding_numbers, or one press of the button of the           *)
(* number-generation page.  The random module holds the values of as many  *)
(* calls of random.sample as the call asks combinations for.               *)
(***************************************************************************)
GenExcludes ==
    { None, Set({}), Set({7, 13, 45}), Set(1..20), Set(1..39), Set(1..40), Set(1..45) }

\* excluded_numbers as get_excluded_numbers builds it (a sorted list), or a set
ExcludedNumbers ==
    { List(<<>>), List(<<7, 13, 45>>), List(SetToSortedSeq(1..30)),
      Set(1..39), List(SetToSortedSeq(1..40)), Set(1..45) }

InitGen ==
    /\ pc = "call"
    /\ \/ op = "generate_lotto_numbers" /\ exclude \in GenExcludes
       \/ op = "page" /\ exclude = None
       \/ op = "generate_excluding_numbers" /\ exclude \in ExcludedNumbers
    /\ count \in 1..5
    /\ rng \in States(count)
    /\ combinations = None
    /\ page = None
    /\ recommended = <<>>
    /\ IdleCheck
    /\ IdleQR
    /\ IdleApp

\* generate_lotto_numbers(exclude=exclude, count=count)
Generate ==
    /\ pc = "call"
    /\ op = "generate_lotto_numbers"
    /\ LET g == generate_lotto_numbers(exclude, count, rng)
       IN /\ combinations' = g.ret
          /\ rng' = g.rng
    /\ pc' = "done"
    /\ UNCHANGED <<op, exclude, count, page, recommended, checkVars, qrVars, appVars>>

\* the button of the page: combinations = generate_lotto_numbers(count),
\* which binds the slider value to the first parameter, exclude; the
\* combinations are shown and saved to the recommendation history
GeneratePage ==
    /\ pc = "call"
    /\ op = "page"
    /\ LET g == generate_lotto_numbers(PyInt(count), 1, rng)
       IN /\ combinations' = g.ret
          /\ rng' = g.rng
          /\ IF g.ret.type \in Exceptions
             THEN /\ page' = [status |-> g.ret.type, shown |-> <<>>]
                  /\ UNCHANGED recommended
             ELSE IF g.ret.type # "dict"
             THEN /\ page' = [status |-> "AttributeError", shown |-> <<>>]
                  /\ UNCHANGED recommended
             ELSE /\ page' = [status |-> "shown", shown |-> g.ret.items]
                  /\ recommended' = Append(recommended,
                         [id |-> NextId(recommended), user_id |-> user_id.val,
                          draw_number |-> None,
                          numbers |-> numbers_set(json_dumps(g.ret)),
                          winning_status |-> "unconfirmed"])
    /\ pc' = "done"
    /\ UNCHANGED <<op, exclude, count, checkVars, qrVars, appVars>>

\* generate_excluding_numbers(excluded_numbers=exclude, count=count)
GenerateExcluding ==
    /\ pc = "call"
    /\ op = "generate_excluding_numbers"
    /\ LET g == generate_excluding_numbers(exclude, count, rng)
       IN /\ combinations' = g.ret
          /\ rng' = g.rng
    /\ pc' = "done"
    /\ UNCHANGED <<op, exclude, count, page, recommended, checkVars, qrVars, appVars>>

NextGen == Generate \/ GeneratePage \/ GenerateExcluding

SpecGen == InitGen /\ [][NextGen]_vars

(***************************************************************************)
(* utils.fetch_winning_numbers.  The answer of the lottery site is an      *)
(* input: a failed request, or the texts of the page's .ball_645 elements. *)
(***************************************************************************)
fetch_winning_numbers(response) ==
    IF response.type # "list" THEN None
    ELSE LET balls == response.items
         IN  IF Len(balls) >= 7
             THEN IF \E i \in 1..7 : ~int(strip(balls[i])).ok
                  THEN None
                  ELSE Dict(<< <<"winning_numbers",
                                 List([i \in 1..6 |-> int(strip(balls[i])).val])>>,
                               <<"bonus_number",
                                 PyInt(int(strip(balls[7])).val)>> >>)
             ELSE None

\* winning_numbers, bonus_number = value: a dict is iterated over its keys,
\* None cannot be unpacked
Unpack2(value) ==
    IF value.type = "dict" /\ Len(value.items) = 2
    THEN [raised |-> None,
          first |-> Str(value.items[1][1]), second |-> Str(value.items[2][1])]
    ELSE IF value.type \in {"dict", "list"}
    THEN [raised |-> Raise("ValueError"), first |-> None, second |-> None]
    ELSE [raised |-> Raise("TypeError"), first |-> None, second |-> None]

(***************************************************************************)
(* app.py: the steps the draw lookup and the bulk check share.             *)
(***************************************************************************)
\* session.query(DrawResult).filter_by(draw_number=draw_number).all()
CachedRows(cache, draw_number) ==
    SelectSeq(cache, LAMBDA row : row.draw_number = draw_number)

\* session.add(DrawResult(draw_number=..., winning_numbers=json.dumps(
\* winning_numbers), bonus_number=...)); session.commit() inside try/except:
\* a second row for a draw number breaks the primary key, a missing bonus
\* the NOT NULL constraint, and the except branch rolls back
StoreDrawResult(cache, draw_number, winning, bonus) ==
    IF CachedRows(cache, draw_number) # <<>> \/ bonus.type = "None"
    THEN cache
    ELSE Append(cache, [draw_number |-> draw_number,
                        winning_numbers |-> winning_numbers_set(json_dumps(winning)),
                        bonus_number |-> bonus])

\* if cached: winning_numbers = json.loads(cached.winning_numbers);
\* bonus_number = cached.bonus_number
FromCache(cache, draw_number) ==
    LET cached == CachedRows(cache, draw_number)
        loaded == json_loads(winning_numbers_get(cached[1].winning_numbers))
    IN  [raised |-> IF loaded.type \in Exceptions THEN loaded ELSE None,
         winning_numbers |-> loaded,
         bonus_number |-> cached[1].bonus_number,
         hit |-> TRUE, fetched |-> <<>>]

\* else: winning_numbers, bonus_number = fetch_winning_numbers(draw_number),
\* once the site has answered
FromSite(draw_number, response) ==
    LET unpacked == Unpack2(fetch_winning_numbers(response))
    IN  [raised |-> unpacked.raised,
         winning_numbers |-> unpacked.first,
         bonus_number |-> unpacked.second,
         hit |-> FALSE, fetched |-> <<draw_number>>]

\* format_winning_numbers_with_emoji(winning_numbers) and
\* format_number(bonus_number): format code 02d takes an int only
FormatWinning(winning, bonus) ==
    IF winning.type = "list" /\ bonus.type = "int"
    THEN [raised |-> None,
          winning_numbers |-> [i \in 1..Len(winning.items) |->
                                  format_number(winning.items[i])],
          bonus_number |-> format_number(bonus.val)]
    ELSE IF winning.type = "list" /\ winning.items = <<>> /\ bonus.type = "None"
    THEN [raised |-> Raise("TypeError"), winning_numbers |-> <<>>, bonus_number |-> <<>>]
    ELSE [raised |-> Raise("ValueError"), winning_numbers |-> <<>>, bonus_number |-> <<>>]

\* check_winning on the values the pages hold: set() of a str is a set of
\* characters, which shares nothing with a ticket's numbers
CheckWinningValues(numbers, winning, bonus) ==
    check_winning(numbers,
                  IF winning.type = "list" THEN winning.items ELSE <<>>,
                  IF bonus.type = "int" THEN bonus.val ELSE 0)

\* int(result.replace("<rank suffix>", ""))
RankOf(status) ==
    CASE status = "1st" -> 1
      [] status = "2nd" -> 2
      [] status = "3rd" -> 3
      [] status = "4th" -> 4
      [] status = "5th" -> 5

\* best_result = no-win; for label, numbers in combinations.items(): ...
RECURSIVE BestResult(_, _, _, _, _)
BestResult(items, k, winning, bonus, best_result) ==
    IF k > Len(items) THEN best_result
    ELSE LET res == CheckWinningValues(items[k][2], winning, bonus)
         IN  BestResult(items, k + 1, winning, bonus,
                 IF res # "no-win"
                 THEN IF best_result = "no-win" THEN res
                      ELSE IF RankOf(res) < RankOf(best_result) THEN res
                      ELSE best_result
                 ELSE best_result)

\* purchase.winning_status = best_result; total_checked += 1; and the
\* winning or the losing total
AssignStatus(i, best_result, s) ==
    [s EXCEPT !.rows[i].winning_status = best_result,
              !.checked = @ + 1,
              !.winning = IF best_result # "no-win" THEN @ + 1 ELSE @,
              !.losing = IF best_result = "no-win" THEN @ + 1 ELSE @]

\* combinations = json.loads(record.numbers) and the fold over its items
EvaluateRecord(i, w, s) ==
    LET loaded == json_loads(numbers_get(s.rows[i].numbers))
    IN  IF loaded.type \in Exceptions THEN [s EXCEPT !.raised = loaded]
        ELSE IF loaded.type # "dict"
        THEN [s EXCEPT !.raised = Raise("AttributeError")]
        ELSE AssignStatus(i, BestResult(loaded.items, 1, w.winning_numbers,
                                        w.bonus_number, "no-win"), s)

\* if winning_numbers: the fetched draw is stored in the cache.  When the
\* insert fails, the rollback has no status to discard: a status is assigned
\* after json.loads(record.numbers), which raises for every stored record
StoreFetched(draw_num, w, s) ==
    [s EXCEPT !.cache = IF w.hit THEN @
                        ELSE StoreDrawResult(@, draw_num, w.winning_numbers,
                                             w.bonus_number)]

\* the body of the loop once the cache was read or the site was asked
CheckRecord(i, draw_num, w, s) ==
    IF w.raised # None
    THEN [s EXCEPT !.fetched = @ \o w.fetched, !.raised = w.raised]
    ELSE IF ~Truthy(w.winning_numbers)
    THEN [s EXCEPT !.fetched = @ \o w.fetched]
    ELSE EvaluateRecord(i, w,
             StoreFetched(draw_num, w, [s EXCEPT !.fetched = @ \o w.fetched]))

\* draw_num = record.draw_number
DrawNumberOf(row, optional_draw) ==
    IF optional_draw THEN row.draw_number.val ELSE row.draw_number

\* the site has not been asked
NoAnswer == [type |-> "no answer"]

\* the record is not the user's or, in the loop over the recommendations,
\* has no draw number
Skipped(row, uid, optional_draw) ==
    \/ row.user_id # uid
    \/ (optional_draw /\ ~Truthy(row.draw_number))

\* the loop over the purchases (optional_draw = FALSE) or the
\* recommendations (optional_draw = TRUE) of the bulk check, over the rows
\* i..last that the handler queried when it started; s is the handler's
\* state so far and an exception ends the handler.  A record whose draw is
\* not cached makes the handler wait for the site: the loop stops with
\* s.wait = i and is taken up at row i with the site's answer, without
\* another look at the cache.
RECURSIVE CheckRecords(_, _, _, _, _, _)
CheckRecords(i, last, uid, optional_draw, answer, s) ==
    IF i > Min(last, Len(s.rows)) \/ s.raised # None THEN s
    ELSE IF Skipped(s.rows[i], uid, optional_draw)
    THEN CheckRecords(i + 1, last, uid, optional_draw, NoAnswer, s)
    ELSE IF answer = NoAnswer
            /\ CachedRows(s.cache, DrawNumberOf(s.rows[i], optional_draw)) = <<>>
    THEN [s EXCEPT !.wait = i]
    ELSE CheckRecords(i + 1, last, uid, optional_draw, NoAnswer,
             CheckRecord(i, DrawNumberOf(s.rows[i], optional_draw),
                         IF answer = NoAnswer
                         THEN FromCache(s.cache,
                                        DrawNumberOf(s.rows[i], optional_draw))
                         ELSE FromSite(DrawNumberOf(s.rows[i], optional_draw),
                                       answer),
                         s))

\* where the bulk check stands: the two tables, the loop it is in and the
\* handler's state
BulkAt(phase, p_rows, r_rows, s) ==
    [purchased |-> p_rows, recommended |-> r_rows, phase |-> phase, s |-> s]

\* for recommendation in recommendations: ..., from row i on
CheckRecommendations(i, lastR, answer, uid, p_rows, r_rows, s) ==
    BulkAt("recommendations", p_rows,
           CheckRecords(i, lastR, uid, TRUE, answer, [s EXCEPT !.rows = r_rows]).rows,
           CheckRecords(i, lastR, uid, TRUE, answer, [s EXCEPT !.rows = r_rows]))

\* the loop over the purchases has stopped with s1: at a wait or an
\* exception the handler stands there, otherwise the loop over the
\* recommendations follows
AfterPurchases(s1, lastR, uid, r_rows) ==
    IF s1.wait = 0 /\ s1.raised = None
    THEN CheckRecommendations(1, lastR, NoAnswer, uid, s1.rows, r_rows, s1)
    ELSE BulkAt("purchases", s1.rows, r_rows, s1)

\* the bulk check from row i of the loop it is in (phase) to its next wait
\* or its end: the purchases first, then the recommendations
BulkRun(phase, i, lastP, lastR, answer, uid, p_rows, r_rows, s) ==
    IF phase = "purchases"
    THEN AfterPurchases(CheckRecords(i, lastP, uid, FALSE, answer,
                                     [s EXCEPT !.rows = p_rows]),
                        lastR, uid, r_rows)
    ELSE CheckRecommendations(i, lastR, answer, uid, p_rows, r_rows, s)

\* for record in records: combinations = json.loads(record.numbers); the
\* combinations of the records shown so far, and the exception that ended
\* the page if one did
RECURSIVE ShowRecords(_, _, _)
ShowRecords(records, i, shown) ==
    IF i > Len(records) THEN [raised |-> None, shown |-> shown]
    ELSE LET loaded == json_loads(numbers_get(records[i].numbers))
         IN  IF loaded.type \in Exceptions
             THEN [raised |-> loaded, shown |-> shown]
             ELSE IF loaded.type # "dict"
             THEN [raised |-> Raise("AttributeError"), shown |-> shown]
             ELSE ShowRecords(records, i + 1,
                      Append(shown, [id |-> records[i].id, combinations |-> loaded,
                                     winning_status |-> records[i].winning_status]))

\* .filter_by(user_id=uid).all()
OfUser(rows, uid) == SelectSeq(rows, LAMBDA row : row.user_id = uid)

\* .order_by(created_at.desc()): rows are stored in creation order
RECURSIVE Reversed(_)
Reversed(rows) ==
    IF rows = <<>> THEN <<>> ELSE Append(Reversed(Tail(rows)), Head(rows))

\* sort_key of the recommendation history
sort_key(h) ==
    IF h.winning_status = "unconfirmed" THEN 10
    ELSE IF h.winning_status = "no-win" THEN 9
    ELSE RankOf(h.winning_status)

\* sorted(histories, key=sort_key): a stable sort
RECURSIVE SortedByKey(_, _)
SortedByKey(histories, key) ==
    IF key > 10 THEN <<>>
    ELSE SelectSeq(histories, LAMBDA h : sort_key(h) = key)
            \o SortedByKey(histories, key + 1)

(***************************************************************************)
(* Specification SpecApp: one browser session, from its start through     *)
(* login, the pages over the database and logout, next to other sessions   *)
(* of the same server.  A handler of this session that asks the lottery    *)
(* site waits for the answer (waiting), and so does a handler of another   *)
(* session (other_waiting); the handlers of every session run during the   *)
(* waits of the others.  The database starts empty.                        *)
(***************************************************************************)
MaxPurchases == 2         \* rows of purchased_numbers that are created
MaxRecommendations == 1   \* rows of recommended_numbers that are created

Users == {1, 2}

AppDraws == {1100, 1101}

\* the draws as the site shows them: six winning numbers and the bonus
SiteBalls(draw_number) ==
    IF draw_number = 1100 THEN <<1, 2, 9, 10, 33, 44, 45>>
    ELSE <<4, 9, 13, 18, 24, 33, 7>>

\* the site during one press of a button: unreachable, answering with a
\* page without balls, or answering with the draw
Sites == {"down", "no balls", "drawn"}

ResponseOf(site, draw_number) ==
    IF site = "down" THEN Raise("ConnectionError")
    ELSE IF site = "no balls" THEN List(<<>>)
    ELSE List([i \in 1..7 |-> str(SiteBalls(draw_number)[i])])

\* the ticket each user holds and scans: user 1 one of draw 1100 with two
\* combinations, user 2 one of draw 1101 with one
TicketOf(uid) ==
    IF uid = 1
    THEN Url(<< <<"v", EncodeV(1100, << <<4, 9, 13, 18, 24, 33>>,
                                        <<2, 9, 10, 33, 44, 45>> >>)>> >>)
    ELSE Url(<< <<"v", EncodeV(1101, << <<4, 9, 13, 18, 24, 33>> >>)>> >>)

\* what parse_qr_url returns for the users' tickets
ParsedOf == [uid \in Users |-> parse_qr_url(TicketOf(uid)).ret]

AppParsed == {ParsedOf[uid] : uid \in Users}

\* the random module when the server starts: it holds the values of
\* MaxGenerations runs of the recommendation
AppRng == [i \in 1..(5 * MaxGenerations) |-> Seed(i % RngStates)]

\* a new browser session: nobody is logged in (app.py:41-48)
InitApp ==
    /\ pc = "app"
    /\ op = "start"
    /\ user_id = None
    /\ waiting = None
    /\ other_waiting = None
    /\ purchased = <<>>
    /\ recommended = <<>>
    /\ draw_results = <<>>
    /\ current_winning = None
    /\ page = None
    /\ rng = AppRng
    /\ exclude = None
    /\ count = 0
    /\ combinations = None
    /\ IdleCheck
    /\ IdleQR

\* what no handler of the application's pages changes
pageFrame == <<pc, exclude, count, combinations, checkVars, qrVars>>

\* what no handler of this session changes
appFrame == <<other_waiting, pageFrame>>

\* the script gets past st.stop() and no handler of this session is running
LoggedIn == pc = "app" /\ user_id # None /\ waiting = None

\* the callback of the login: with the user the login gave,
\* st.session_state.user_id = user.id; a failed login leaves it None
Login ==
    /\ pc = "app"
    /\ user_id = None
    /\ waiting = None
    /\ \E user \in {None} \cup {PyInt(uid) : uid \in Users} :
          /\ user_id' = user
          /\ page' = [status |-> IF user = None THEN "login failed"
                                 ELSE "logged in",
                      shown |-> <<>>]
    /\ op' = "login"
    /\ UNCHANGED <<purchased, recommended, draw_results, current_winning, waiting,
                   rng, appFrame>>

\* the logout button of the sidebar: st.session_state.user_id = None
Logout ==
    /\ LoggedIn
    /\ user_id' = None
    /\ op' = "logout"
    /\ page' = None
    /\ UNCHANGED <<purchased, recommended, draw_results, current_winning, waiting,
                   rng, appFrame>>

\* the QR page: the URL is decoded and the save button stores the purchase
SavePurchase ==
    /\ LoggedIn
    /\ Len(purchased) < MaxPurchases
    /\ \E parsed \in {ParsedOf[user_id.val]} :
          /\ parsed # None
          /\ purchased' = AddPurchase(purchased, user_id.val,
                                      parsed.draw_number, parsed.numbers)
          /\ page' = [status |-> "saved",
                      shown |-> NumbersDict(parsed.numbers).items]
    /\ op' = "save_purchase"
    /\ UNCHANGED <<user_id, recommended, draw_results, current_winning, waiting,
                   rng, appFrame>>

\* the states of the random module before each of the MaxGenerations runs of
\* the recommendation that are followed
AppRngStates == {Advance(AppRng, 5 * n) : n \in 0..(MaxGenerations - 1)}

\* the five combinations for each scanned ticket and state of the random
\* module
AppRecommendedSets ==
    [parsed \in AppParsed, r \in AppRngStates |->
        RecommendedSets(Set(UnionOf(parsed.numbers)), 0, r)]

\* recommended = RecommendedNumber(user_id=...); recommended.numbers =
\* numbers_dict; session.add(recommended); session.commit()
AddRecommendation(rows, uid, recommended_sets) ==
    Append(rows, [id |-> NextId(rows), user_id |-> uid,
                  draw_number |-> None,
                  numbers |-> numbers_set(
                      Dict([i \in 1..5 |-> <<labels[i], recommended_sets[i]>>])),
                  winning_status |-> DefaultStatus])

\* the QR page, recommendation button pressed and save button not: five
\* combinations without the ticket's numbers are generated and shown, and
\* nothing is stored
Recommend ==
    /\ LoggedIn
    /\ rng \in AppRngStates
    /\ \E parsed \in {ParsedOf[user_id.val]} :
          /\ parsed # None
          /\ page' = [status |-> "recommended",
                      shown |-> AppRecommendedSets[parsed, rng]]
    /\ rng' = Advance(rng, 5)
    /\ op' = "recommend"
    /\ UNCHANGED <<user_id, purchased, recommended, draw_results, current_winning,
                   waiting, appFrame>>

\* the QR page in a run in which the recommendation button and the save
\* button are both pressed: the five combinations generated in this run are
\* stored as one recommendation
SaveRecommendation ==
    /\ LoggedIn
    /\ rng \in AppRngStates
    /\ Len(recommended) < MaxRecommendations
    /\ \E parsed \in {ParsedOf[user_id.val]} :
          /\ parsed # None
          /\ recommended' = AddRecommendation(recommended, user_id.val,
                                              AppRecommendedSets[parsed, rng])
          /\ page' = [status |-> "saved",
                      shown |-> [i \in 1..5 |->
                                  <<labels[i], AppRecommendedSets[parsed, rng][i]>>]]
    /\ rng' = Advance(rng, 5)
    /\ op' = "save_recommendation"
    /\ UNCHANGED <<user_id, purchased, draw_results, current_winning, waiting,
                   appFrame>>

\* the draw lookup from the point where winning_numbers and bonus_number
\* are set (w): the fetched draw is stored unless the cache has a row of the
\* draw by now (the insert fails on the primary key and is rolled back),
\* and the numbers are shown and kept
LookupEnd(cache, draw_input, site, w, kept) ==
    LET looked == w.raised = None
        frame == [draw_input |-> draw_input, site |-> site,
                  hit |-> w.hit, fetched |-> w.fetched]
        status == IF ~looked THEN w.raised.type
                  ELSE IF ~Truthy(w.winning_numbers) THEN "not found"
                  ELSE IF FormatWinning(w.winning_numbers,
                                        w.bonus_number).raised # None
                  THEN FormatWinning(w.winning_numbers, w.bonus_number).raised.type
                  ELSE "shown"
    IN  [cache |-> IF looked /\ ~w.hit /\ w.winning_numbers.type # "None"
                   THEN StoreDrawResult(cache, draw_input, w.winning_numbers,
                                        w.bonus_number)
                   ELSE cache,
         page |-> [status |-> status,
                   shown |-> IF status = "shown"
                             THEN LET display == FormatWinning(w.winning_numbers,
                                                               w.bonus_number)
                                  IN  <<display.winning_numbers, display.bonus_number>>
                             ELSE <<>>,
                   call |-> frame],
         current_winning |-> IF status = "shown"
                             THEN [draw_number |-> draw_input,
                                   winning_numbers |-> w.winning_numbers,
                                   bonus_number |-> w.bonus_number]
                             ELSE kept]

\* the draw lookup button of the winning-check page: the cache is asked;
\* with a row of the draw the handler runs to its end, without one it calls
\* fetch_winning_numbers and waits for the site
DrawLookup ==
    /\ LoggedIn
    /\ \E draw_input \in AppDraws :
          IF CachedRows(draw_results, draw_input) # <<>>
          THEN LET e == LookupEnd(draw_results, draw_input, "not asked",
                                  FromCache(draw_results, draw_input),
                                  current_winning)
               IN  /\ page' = e.page
                   /\ current_winning' = e.current_winning
                   /\ op' = "draw_lookup"
                   /\ UNCHANGED waiting
          ELSE /\ waiting' = [handler |-> "draw_lookup", draw_input |-> draw_input]
               /\ page' = [status |-> "waiting", shown |-> <<>>,
                           call |-> [draw_input |-> draw_input, site |-> "not asked",
                                     hit |-> FALSE, fetched |-> <<>>]]
               /\ op' = "draw_lookup_wait"
               /\ UNCHANGED current_winning
    /\ UNCHANGED <<user_id, purchased, recommended, draw_results, rng, appFrame>>

\* the site answers (or the request fails) and the draw lookup runs to its
\* end with the cache as it is by then
DrawLookupAnswer ==
    /\ pc = "app"
    /\ waiting # None
    /\ waiting.handler = "draw_lookup"
    /\ \E site \in Sites :
          LET e == LookupEnd(draw_results, waiting.draw_input, site,
                             FromSite(waiting.draw_input,
                                      ResponseOf(site, waiting.draw_input)),
                             current_winning)
          IN  /\ draw_results' = e.cache
              /\ page' = e.page
              /\ current_winning' = e.current_winning
    /\ waiting' = None
    /\ op' = "draw_lookup"
    /\ UNCHANGED <<user_id, purchased, recommended, rng, appFrame>>

\* a count that starts at one
BulkTotals_one == [checked |-> 1, winning |-> 0, losing |-> 0]

\* total_checked = 0; total_winning = 0; total_losing = 0
BulkTotals == [checked |-> 0, winning |-> 0, losing |-> 0]

\* the handler's state when the bulk check starts
BulkStart(cache) ==
    [rows |-> <<>>, cache |-> cache, fetched |-> <<>>,
     checked |-> BulkTotals.checked, winning |-> BulkTotals.winning,
     losing |-> BulkTotals.losing, raised |-> None, wait |-> 0]

\* the draw of the record the bulk check b waits at
AwaitedDraw(b) ==
    IF b.phase = "purchases"
    THEN DrawNumberOf(b.purchased[b.s.wait], FALSE)
    ELSE DrawNumberOf(b.recommended[b.s.wait], TRUE)

\* what the page of the bulk check ends with
BulkPage(b, site) ==
    [status |-> IF b.s.raised # None THEN b.s.raised.type ELSE "shown",
     shown |-> IF b.s.raised # None THEN <<>>
               ELSE <<b.s.checked, b.s.winning, b.s.losing>>,
     call |-> [site |-> site, fetched |-> b.s.fetched]]

\* the handler that waits: the loop and the row it is at, the rows it
\* queried when it started, and its totals so far
BulkWaiting(b, lastP, lastR) ==
    [handler |-> "bulk_check", phase |-> b.phase, i |-> b.s.wait,
     lastP |-> lastP, lastR |-> lastR, fetched |-> b.s.fetched,
     checked |-> b.s.checked, winning |-> b.s.winning, losing |-> b.s.losing]

\* the handler's state when it goes on after a wait
BulkResumed(w, cache) ==
    [rows |-> <<>>, cache |-> cache, fetched |-> w.fetched,
     checked |-> w.checked, winning |-> w.winning, losing |-> w.losing,
     raised |-> None, wait |-> 0]

\* the bulk check has run to b: the tables are as it left them, and it
\* waits for the site or its page is shown
BulkStep(b, lastP, lastR, site) ==
    /\ purchased' = b.purchased
    /\ recommended' = b.recommended
    /\ draw_results' = b.s.cache
    /\ IF b.s.wait > 0
       THEN /\ waiting' = BulkWaiting(b, lastP, lastR)
            /\ page' = [status |-> "waiting", shown |-> <<>>,
                        call |-> [site |-> site, fetched |-> b.s.fetched]]
            /\ op' = "bulk_check_wait"
       ELSE /\ waiting' = None
            /\ page' = BulkPage(b, site)
            /\ op' = "bulk_check"

\* the bulk check button of the winning-check page, up to the first record
\* whose draw is not cached or, without such a record, to its end
BulkCheck ==
    /\ LoggedIn
    /\ BulkStep(BulkRun("purchases", 1, Len(purchased), Len(recommended),
                        NoAnswer, user_id.val, purchased, recommended,
                        BulkStart(draw_results)),
                Len(purchased), Len(recommended), "not asked")
    /\ UNCHANGED <<user_id, current_winning, rng, appFrame>>

\* the record the waiting handler stands at
WaitingAt ==
    BulkAt(waiting.phase, purchased, recommended, [wait |-> waiting.i])

\* the site answers (or the request fails) and the bulk check goes on from
\* the record it waited at, to the next record whose draw is not cached or
\* to its end
BulkCheckAnswer ==
    /\ pc = "app"
    /\ waiting # None
    /\ waiting.handler = "bulk_check"
    /\ \E site \in Sites :
          BulkStep(BulkRun(waiting.phase, waiting.i, waiting.lastP, waiting.lastR,
                           ResponseOf(site, AwaitedDraw(WaitingAt)), user_id.val,
                           purchased, recommended,
                           BulkResumed(waiting, draw_results)),
                   waiting.lastP, waiting.lastR, site)
    /\ UNCHANGED <<user_id, current_winning, rng, appFrame>>

\* a delete that asks for the id only
DeleteOne_any(rows, del_id, uid) ==
    SelectSeq(rows, LAMBDA row : row.id # del_id)

\* record = session.query(...).filter_by(id=del_id, user_id=user_id).first();
\* if record: session.delete(record)
DeleteOne(rows, del_id, uid) ==
    SelectSeq(rows, LAMBDA row : ~(row.id = del_id /\ row.user_id = uid))

\* for del_id in delete_ids: ...; session.commit()
RECURSIVE DeleteSelected(_, _, _)
DeleteSelected(rows, delete_ids, uid) ==
    IF delete_ids = <<>> THEN rows
    ELSE DeleteSelected(DeleteOne(rows, Head(delete_ids), uid),
                        Tail(delete_ids), uid)

\* delete_ids: the ids of the listed records whose checkbox is ticked, in
\* the order of the list
TickedIds(records, ticked) ==
    LET listed == SelectSeq(records, LAMBDA row : row.id \in ticked)
    IN  [k \in 1..Len(listed) |-> listed[k].id]

\* what a history page does with the table it lists: the records are shown
\* one by one and, when the list was shown to its end, some boxes are ticked
\* and the delete button is pressed, the ticked records are deleted
HistoryPage(rows, records, ticked, pressed, uid) ==
    LET r == ShowRecords(records, 1, <<>>)
        delete_ids == TickedIds(records, ticked)
    IN  IF records = <<>>
        THEN [rows |-> rows, page |-> [status |-> "empty", shown |-> r.shown]]
        ELSE IF r.raised # None
        THEN [rows |-> rows, page |-> [status |-> r.raised.type, shown |-> r.shown]]
        ELSE IF delete_ids # <<>> /\ pressed
        THEN [rows |-> DeleteSelected(rows, delete_ids, uid),
              page |-> [status |-> "deleted", shown |-> r.shown]]
        ELSE [rows |-> rows, page |-> [status |-> "shown", shown |-> r.shown]]

\* the ids of a table
IdsOf(rows) == {rows[i].id : i \in 1..Len(rows)}

\* the option of the draw filter that shows every draw
AllDraws == <<"a", "l", "l">>

\* f"{d}<draw suffix>": an option of the draw filter; the suffix is written h
DrawOption(d) == str(d) \o <<"h">>

\* int(selected_draw.replace("<draw suffix>", ""))
DrawOfOption(selected_draw) ==
    int(SelectSeq(selected_draw, LAMBDA c : c # "h")).val

\* the options of the draw filter: every draw, or one of the draws of the
\* purchases
DrawOptions(purchases) ==
    {AllDraws} \cup {DrawOption(purchases[k].draw_number) : k \in 1..Len(purchases)}

\* filtered_purchases
Filtered(purchases, selected_draw) ==
    IF selected_draw = AllDraws THEN purchases
    ELSE SelectSeq(purchases,
                   LAMBDA row : row.draw_number = DrawOfOption(selected_draw))

\* the page h with the option of the draw filter it was shown under
UnderOption(h, selected_draw) ==
    [rows |-> h.rows,
     page |-> [status |-> h.page.status, shown |-> h.page.shown,
               selected_draw |-> selected_draw]]

\* the purchase history page of user uid, newest purchase first, under an
\* option of its draw filter, with its checkboxes and its delete button
PurchasePage(rows, uid, selected_draw, ticked, pressed) ==
    UnderOption(HistoryPage(rows,
                            Filtered(Reversed(OfUser(rows, uid)), selected_draw),
                            ticked, pressed, uid),
                selected_draw)

\* what the page can come to, over the options, the boxes and the button
PurchasePages(rows, uid) ==
    {PurchasePage(rows, uid, f[1], f[2], f[3]) :
        f \in {g \in DrawOptions(OfUser(rows, uid))
                        \X (SUBSET IdsOf(OfUser(rows, uid))) \X BOOLEAN :
                  g[2] \subseteq IdsOf(Filtered(OfUser(rows, uid), g[1]))}}

\* the purchase history page
PurchaseHistory ==
    /\ LoggedIn
    /\ \E h \in PurchasePages(purchased, user_id.val) :
          /\ page' = h.page
          /\ purchased' = h.rows
    /\ op' = "purchase_history"
    /\ UNCHANGED <<user_id, recommended, draw_results, current_winning, waiting,
                   rng, appFrame>>

\* the recommendations as the page sorts them
Sorted(mine, sort_option) ==
    IF sort_option = "latest" THEN Reversed(mine)
    ELSE IF sort_option = "oldest" THEN mine
    ELSE SortedByKey(mine, 1)

\* what the recommendation history page of user uid can come to, over its
\* three sort options, its checkboxes and its delete button
RecommendationPages(rows, uid) ==
    {HistoryPage(rows, Sorted(OfUser(rows, uid), f[1]), f[2], f[3], uid) :
        f \in {"latest", "oldest", "status"}
                 \X (SUBSET IdsOf(OfUser(rows, uid))) \X BOOLEAN}

\* the recommendation history page
RecommendationHistory ==
    /\ LoggedIn
    /\ \E h \in RecommendationPages(recommended, user_id.val) :
          /\ page' = h.page
          /\ recommended' = h.rows
    /\ op' = "recommendation_history"
    /\ UNCHANGED <<user_id, purchased, draw_results, current_winning, waiting,
                   rng, appFrame>>

\* what this session keeps while another session's handler runs; the step
\* shows nothing in this session
otherFrame == <<user_id, waiting, current_winning, pageFrame>>

\* another browser session stores a purchase
OtherSavesPurchase ==
    /\ pc = "app"
    /\ Len(purchased) < MaxPurchases
    /\ \E uid \in Users : \E parsed \in {ParsedOf[uid]} :
          /\ parsed # None
          /\ purchased' = AddPurchase(purchased, uid, parsed.draw_number,
                                      parsed.numbers)
    /\ op' = "other_save_purchase"
    /\ page' = None
    /\ UNCHANGED <<recommended, draw_results, rng, other_waiting, otherFrame>>

\* another browser session has a recommendation generated and, with the
\* save button, stored: the random module is the server's, not the session's
OtherRecommends ==
    /\ pc = "app"
    /\ rng \in AppRngStates
    /\ \/ UNCHANGED recommended
       \/ /\ Len(recommended) < MaxRecommendations
          /\ \E uid \in Users : \E parsed \in {ParsedOf[uid]} :
                /\ parsed # None
                /\ recommended' = AddRecommendation(recommended, uid,
                                       AppRecommendedSets[parsed, rng])
    /\ rng' = Advance(rng, 5)
    /\ op' = "other_recommend"
    /\ page' = None
    /\ UNCHANGED <<purchased, draw_results, other_waiting, otherFrame>>

\* no handler of another session waits for the site
OthersIdle == pc = "app" /\ other_waiting = None

\* another browser session presses the draw lookup button: the cache is
\* asked; with a row of the draw its handler runs to its end and leaves the
\* tables as they are, without one it calls fetch_winning_numbers and waits
OtherLooksUp ==
    /\ OthersIdle
    /\ \E draw_input \in AppDraws :
          other_waiting' = IF CachedRows(draw_results, draw_input) # <<>>
                           THEN None
                           ELSE [handler |-> "draw_lookup",
                                 draw_input |-> draw_input]
    /\ op' = "other_draw_lookup"
    /\ page' = None
    /\ UNCHANGED <<purchased, recommended, draw_results, rng, otherFrame>>

\* the site answers the other session (or the request fails) and its draw
\* lookup runs to its end with the cache as it is by then
OtherLookupAnswer ==
    /\ pc = "app"
    /\ other_waiting # None
    /\ other_waiting.handler = "draw_lookup"
    /\ \E site \in Sites :
          draw_results' = LookupEnd(draw_results, other_waiting.draw_input, site,
                                    FromSite(other_waiting.draw_input,
                                             ResponseOf(site, other_waiting.draw_input)),
                                    None).cache
    /\ other_waiting' = None
    /\ op' = "other_draw_lookup"
    /\ page' = None
    /\ UNCHANGED <<purchased, recommended, rng, otherFrame>>

\* the handler of the other session's user uid that waits: the loop and the
\* row it is at, the rows it queried when it started, and its totals so far
OtherBulkWaiting(b, lastP, lastR, uid) ==
    [handler |-> "bulk_check", uid |-> uid, phase |-> b.phase, i |-> b.s.wait,
     lastP |-> lastP, lastR |-> lastR, fetched |-> <<>>,
     checked |-> b.s.checked, winning |-> b.s.winning, losing |-> b.s.losing]

\* the bulk check of another session has run to b: the tables are as it
\* left them, and it waits for the site or has ended
OtherBulkStep(b, lastP, lastR, uid) ==
    /\ purchased' = b.purchased
    /\ recommended' = b.recommended
    /\ draw_results' = b.s.cache
    /\ other_waiting' = IF b.s.wait > 0
                        THEN OtherBulkWaiting(b, lastP, lastR, uid)
                        ELSE None

\* another browser session presses the bulk check button: its handler runs
\* up to the first record whose draw is not cached or, without such a
\* record, to its end
OtherBulkChecks ==
    /\ OthersIdle
    /\ \E uid \in Users :
          OtherBulkStep(BulkRun("purchases", 1, Len(purchased), Len(recommended),
                                NoAnswer, uid, purchased, recommended,
                                BulkStart(draw_results)),
                        Len(purchased), Len(recommended), uid)
    /\ op' = "other_bulk_check"
    /\ page' = None
    /\ UNCHANGED <<rng, otherFrame>>

\* the record the waiting handler of the other session stands at
OtherWaitingAt ==
    BulkAt(other_waiting.phase, purchased, recommended, [wait |-> other_waiting.i])

\* the site answers the other session (or the request fails) and its bulk
\* check goes on from the record it waited at, to the next record whose draw
\* is not cached or to its end
OtherBulkAnswer ==
    /\ pc = "app"
    /\ other_waiting # None
    /\ other_waiting.handler = "bulk_check"
    /\ \E site \in Sites :
          OtherBulkStep(BulkRun(other_waiting.phase, other_waiting.i,
                                other_waiting.lastP, other_waiting.lastR,
                                ResponseOf(site, AwaitedDraw(OtherWaitingAt)),
                                other_waiting.uid, purchased, recommended,
                                BulkResumed(other_waiting, draw_results)),
                        other_waiting.lastP, other_waiting.lastR, other_waiting.uid)
    /\ op' = "other_bulk_check"
    /\ page' = None
    /\ UNCHANGED <<rng, otherFrame>>

NextApp ==
    \/ Login
    \/ Logout
    \/ SavePurchase
    \/ Recommend
    \/ SaveRecommendation
    \/ DrawLookup
    \/ DrawLookupAnswer
    \/ BulkCheck
    \/ BulkCheckAnswer
    \/ PurchaseHistory
    \/ RecommendationHistory
    \/ OtherSavesPurchase
    \/ OtherRecommends
    \/ OtherLooksUp
    \/ OtherLookupAnswer
    \/ OtherBulkChecks
    \/ OtherBulkAnswer

SpecApp == InitApp /\ [][NextApp]_vars

(***************************************************************************)
(* Properties of check_winning (SpecCheck).                                *)
(***************************************************************************)
MatchingPositions ==
    {i \in 1..Len(user_numbers) :
        \E j \in 1..Len(winning_numbers) : user_numbers[i] = winning_numbers[j]}

BonusOnTicket == \E i \in 1..Len(user_numbers) : user_numbers[i] = bonus_number

Checked == pc = "done" /\ op = "check_winning"

\* C1: for a ticket and a winning set of 6 distinct numbers each and any
\* bonus, check_winning returns the tier fixed by the number of matching
\* numbers and by whether the bonus is on the ticket: 6 -> 1st, 5 with
\* bonus -> 2nd, 5 without -> 3rd, 4 -> 4th, 3 -> 5th, otherwise no-win.
C1_TierTable ==
    Checked =>
        LET n == Cardinality(MatchingPositions)
        IN  /\ (n = 6) <=> (tier = "1st")
            /\ (n = 5 /\ BonusOnTicket) <=> (tier = "2nd")
            /\ (n = 5 /\ ~BonusOnTicket) <=> (tier = "3rd")
            /\ (n = 4) <=> (tier = "4th")
            /\ (n = 3) <=> (tier = "5th")
            /\ (n < 3) <=> (tier = "no-win")

C1_Witness ==
    /\ Checked
    /\ Cardinality(MatchingPositions) = 5
    /\ BonusOnTicket
    /\ tier = "2nd"

(***************************************************************************)
(* Properties of parse_qr_url (SpecQR).  The definitions below read the    *)
(* URL the way the decoder's contract describes it, independently of the   *)
(* operators that model the code.                                          *)
(***************************************************************************)
Analysed == pc \in {"done", "saved"} /\ op = "parse_qr_url"

\* the pairs of the query that carry a non-blank v
VPairs == SelectSeq(url.query, LAMBDA pr : pr[1] = "v" /\ pr[2] # <<>>)

HasV == ~url.bracket /\ VPairs # <<>>

TheV == VPairs[1][2]

DrawDigits == LeadingDigits(TheV)

AfterDigits == SubSeq(TheV, Len(DrawDigits) + 1, Len(TheV))

SeparatorFollows == AfterDigits # <<>> /\ AfterDigits[1] = "s"

AllSegments == IF SeparatorFollows THEN Tail(split(AfterDigits, "s")) ELSE <<>>

FirstFive == SubSeq(AllSegments, 1, Min(5, Len(AllSegments)))

\* the complete 2-character windows of a segment, by position
Windows(segment) == 1..(Len(segment) \div 2)

WindowValue(segment, k) == int(SubSeq(segment, 2 * k - 1, 2 * k))

ValidWindows(segment) ==
    {k \in Windows(segment) :
        WindowValue(segment, k).ok /\ WindowValue(segment, k).val \in 1..45}

Yields(segment) == Cardinality(ValidWindows(segment)) = 6

\* positions, among the first five segments, of the segments that yield
YieldingIn(segments) == {k \in 1..Len(segments) : Yields(segments[k])}

YieldingPositions == YieldingIn(FirstFive)

\* combination c holds exactly the values of the valid windows of segment
SameNumbers(c, segment) ==
    LET valid == ValidWindows(segment)
        vals == [k \in valid |-> WindowValue(segment, k).val]
    IN  \A x \in Range(c) \cup {vals[k] : k \in valid} :
            Cardinality({i \in 1..Len(c) : c[i] = x})
                = Cardinality({k \in valid : vals[k] = x})

\* C2: a v value made of a digit run D of positive value (leading zeros
\* allowed), then "s" and at least one segment that yields a combination,
\* decodes with draw number int(D); when the character after the longest
\* leading digit run is not "s" the decode fails.
C2_DrawNumberIsDigitRun ==
    (Analysed /\ HasV /\ DrawDigits # <<>>) =>
        /\ (IntOfDigits(DrawDigits) > 0 /\ SeparatorFollows /\ YieldingPositions # {})
              => (result # None /\ result.draw_number = IntOfDigits(DrawDigits))
        /\ ~SeparatorFollows => result = None

\* C3: every combination of a successful decode is a NumberSet: 6 integers
\* in 1..45, pairwise distinct, in ascending order.
C3_CombinationsAreNumberSets ==
    (Analysed /\ result # None) =>
        \A j \in 1..Len(result.numbers) :
            LET c == result.numbers[j]
            IN  /\ Len(c) = 6
                /\ \A i \in 1..6 : c[i] \in 1..45
                /\ \A i \in 1..5 : c[i] < c[i + 1]

\* C4: the decode succeeds exactly when a (positive) draw number was found
\* and at least one of the considered segments produced a combination.
C4_SuccessIffDrawAndCombination ==
    Analysed =>
        ((result # None) <=>
            (HasV /\ DrawDigits # <<>> /\ IntOfDigits(DrawDigits) > 0
                  /\ YieldingPositions # {}))

\* the decoder got as far as its final test
ReachedFinalTest == Analysed /\ stdout \in {"Parse success", "Parse failed"}

\* C5: a segment is read in non-overlapping 2-character windows, a trailing
\* single character is ignored, and the segment yields a combination
\* exactly when 6 of its windows hold a value in 1..45; any other segment
\* is dropped while the others still decode, and the decode fails when no
\* segment is left.
C5_SegmentYieldsIffSixValidWindows ==
    ReachedFinalTest =>
        LET five == FirstFive
            yielding == YieldingIn(five)
            inOrder == SetToSortedSeq(yielding)
        IN  /\ (yielding = {}) => (result = None)
            /\ (yielding # {} /\ IntOfDigits(DrawDigits) > 0) => (result # None)
            /\ (result # None) =>
                  /\ Len(result.numbers) = Cardinality(yielding)
                  /\ \A j \in 1..Len(result.numbers) :
                        SameNumbers(result.numbers[j], five[inOrder[j]])

C5_Witness ==
    /\ Analysed
    /\ result # None
    /\ \E k \in 1..Len(FirstFive) :
          FirstFive[k] # <<>> /\ ~Yields(FirstFive[k])
    /\ \E k \in YieldingPositions : Len(FirstFive[k]) = 13

C6Labels == <<"A", "B", "C", "D", "E">>

\* the URL whose v value stops after the fifth segment
TruncatedUrl == Url(<< <<"v", DrawDigits \o JoinSegments(FirstFive)>> >>)

\* C6: only the first 5 segments after the draw number are read and later
\* ones are ignored without error, so a decode has at most 5 combinations;
\* the combinations keep the order of their segments and the k-th one gets
\* the k-th label of A..E.
C6_FirstFiveSegmentsInLabelOrder ==
    (Analysed /\ HasV /\ DrawDigits # <<>> /\ SeparatorFollows) =>
        LET five == FirstFive
            inOrder == SetToSortedSeq(YieldingIn(five))
        IN  /\ result = parse_qr_url(TruncatedUrl).ret
            /\ (result # None) =>
                  /\ Len(result.numbers) <= 5
                  /\ Len(result.numbers) = Len(inOrder)
                  /\ \A j \in 1..Len(result.numbers) :
                        SameNumbers(result.numbers[j], five[inOrder[j]])
            /\ (pc = "saved") =>
                  /\ numbers_dict # None
                  /\ Len(numbers_dict.items) = Len(result.numbers)
                  /\ \A k \in 1..Len(result.numbers) :
                        numbers_dict.items[k] = <<C6Labels[k], result.numbers[k]>>

C6_Witness ==
    /\ pc = "saved"
    /\ op = "parse_qr_url"
    /\ Len(AllSegments) >= 6
    /\ Yields(AllSegments[6])
    /\ Len(numbers_dict.items) = 3
    /\ ~Yields(AllSegments[2])
    /\ numbers_dict.items[2][1] = "B"
    /\ SameNumbers(numbers_dict.items[2][2], AllSegments[3])

\* C7: parse_qr_url never raises: whatever the URL, the call returns either
\* a decode result or the failure value.
C7_NeverRaises ==
    (op = "parse_qr_url" /\ pc # "call") =>
        /\ pc # "crashed"
        /\ result = None \/ result.type = "dict"

C7_Witness ==
    /\ Analysed
    /\ url.bracket
    /\ result = None
    /\ stdout = "QR URL parsing error"

\* the first cause of failure that applies to the URL
Cause ==
    IF ~HasV THEN "MissingParameterError"
    ELSE IF DrawDigits = <<>> THEN "MalformedDrawNumberError"
    ELSE IF ~SeparatorFollows THEN "MalformedSeparatorError"
    ELSE IF YieldingPositions = {} THEN "DecodeFailedError"
    ELSE "none"

\* one URL per cause
CauseExamples ==
    [c \in {"MissingParameterError", "MalformedDrawNumberError",
            "MalformedSeparatorError", "DecodeFailedError"} |->
        IF c = "MissingParameterError" THEN Url(<< <<"w", <<"1">> >> >>)
        ELSE IF c = "MalformedDrawNumberError"
        THEN Url(<< <<"v", <<"a", "b", "c", "s">> \o SegA>> >>)
        ELSE IF c = "MalformedSeparatorError"
        THEN Url(<< <<"v", str(1194) \o <<"x">> \o SegA>> >>)
        ELSE Url(<< <<"v", str(1194) \o <<"s">> \o SubSeq(SegA, 1, 11)>> >>)]

\* C8 as stated: each cause of failure is reported by a failure value of
\* its own, so the value returned for this URL differs from the value
\* returned for a URL that fails for another cause.
C8_CausesToldApart ==
    (Analysed /\ ~url.bracket /\ Cause # "none") =>
        \A c \in DOMAIN CauseExamples :
            c # Cause => parse_qr_url(CauseExamples[c]).ret # result

\* C8 amended: a URL without v, a v that does not start with a digit, a
\* missing "s" after the draw digits and a v none of whose segments yields
\* a combination all make parse_qr_url return the one failure value None.
C8_CausesShareOneValue ==
    (Analysed /\ ~url.bracket /\ Cause # "none") =>
        /\ result = None
        /\ \A c \in DOMAIN CauseExamples : parse_qr_url(CauseExamples[c]).ret = result

C8_Witness ==
    /\ Analysed
    /\ Cause = "DecodeFailedError"
    /\ Len(AllSegments) = 2
    /\ result = None
    /\ stdout = "Parse failed"

(***************************************************************************)
(* Properties of the round trip (SpecRT).                                  *)
(***************************************************************************)
\* C9: encoding a positive draw number and a bundle of NumberSets as
\* '<draw>s<12 digits>[s<12 digits>...]' and decoding the URL gives back
\* the same draw number and the same combinations in the same label order.
C9_RoundTrip ==
    (op = "roundtrip" /\ pc \in {"done", "saved"}) =>
        /\ result # None
        /\ result.draw_number = draw_in
        /\ result.numbers = bundle_in
        /\ (pc = "saved") =>
              /\ numbers_dict.type = "dict"
              /\ numbers_dict.items =
                    [k \in 1..Len(bundle_in) |-> <<C6Labels[k], bundle_in[k]>>]

C9_Witness ==
    /\ op = "roundtrip"
    /\ pc = "saved"
    /\ draw_in = 1194
    /\ Len(bundle_in) = 5
    /\ bundle_in[1] # bundle_in[2]
    /\ 45 \in Range(bundle_in[2])
    /\ numbers_dict.items[2] = <<"B", bundle_in[2]>>

(***************************************************************************)
(* Properties of the number generation (SpecGen).                          *)
(***************************************************************************)
IsNumberSet(c) ==
    /\ Len(c) = 6
    /\ \A i \in 1..6 : c[i] \in 1..45
    /\ \A i \in 1..5 : c[i] < c[i + 1]

\* C10: for every slider value count in 1..5 the number-generation page
\* gets a bundle of exactly count combinations, labelled with the first
\* count labels of A..E in generation order, each a sorted list of 6
\* distinct integers in 1..45.
C10_PageBundleOfCount ==
    (op = "page" /\ pc = "done") =>
        /\ page.status = "shown"
        /\ Len(page.shown) = count
        /\ \A k \in 1..Len(page.shown) :
              /\ page.shown[k][1] = C6Labels[k]
              /\ IsNumberSet(page.shown[k][2])

\* the numbers of 1..45 that are left once exclude is removed
Pool == {n \in 1..45 : n \notin Members(exclude)}

\* the combinations of a returned value: the one of a bare list, the
\* values of a bundle
CombinationsOf(value) ==
    IF value.type = "list"
    THEN IF value.items = <<>> THEN <<>> ELSE <<value.items>>
    ELSE IF value.type = "dict"
    THEN [k \in 1..Len(value.items) |-> value.items[k][2]]
    ELSE <<>>

LabelsOf(value) == [k \in 1..Len(value.items) |-> value.items[k][1]]

Generated == op = "generate_lotto_numbers" /\ pc = "done"

\* C11: for every exclude set with at most 39 members of 1..45, every
\* combination generate_lotto_numbers returns is 6 distinct numbers of
\* 1..45 and contains no member of exclude.
C11_NoExcludedNumber ==
    (Generated /\ exclude.type = "set"
               /\ Cardinality(exclude.items \cap 1..45) <= 39) =>
        /\ combinations.type \in {"list", "dict"}
        /\ \A k \in 1..Len(CombinationsOf(combinations)) :
              /\ IsNumberSet(CombinationsOf(combinations)[k])
              /\ Range(CombinationsOf(combinations)[k]) \cap exclude.items = {}

C11_Witness ==
    /\ Generated
    /\ exclude = Set(1..39)
    /\ count = 5
    /\ Len(CombinationsOf(combinations)) = 5
    /\ CombinationsOf(combinations)[5] = <<40, 41, 42, 43, 44, 45>>

\* C12 as stated: when fewer than 6 numbers are left once exclude is
\* removed, generate_lotto_numbers ends with InsufficientPoolError, an
\* outcome that is no bundle and no combination.
C12_InsufficientPoolError ==
    (Generated /\ exclude.type = "set" /\ Cardinality(Pool) < 6) =>
        combinations.type = "InsufficientPoolError"

\* C12 as the code has it: generate_lotto_numbers returns an empty result
\* exactly when fewer than 6 numbers are left once exclude is removed; the
\* empty result is [] when count is 1 and {} otherwise, nothing is raised
\* and no sample is drawn.
C12_EmptyResultWhenPoolShort ==
    (Generated /\ exclude.type = "set") =>
        /\ (Cardinality(Pool) < 6) <=> (CombinationsOf(combinations) = <<>>)
        /\ (Cardinality(Pool) < 6) =>
              /\ combinations = IF count = 1 THEN List(<<>>) ELSE Dict(<<>>)
              /\ combinations.type \notin Exceptions

C12_Witness ==
    /\ Generated
    /\ exclude = Set(1..40)
    /\ count = 3
    /\ combinations = Dict(<<>>)

GeneratedExcluding == op = "generate_excluding_numbers" /\ pc = "done"

\* C13: generate_excluding_numbers returns the empty bundle, raising
\* nothing, whenever fewer than 6 numbers of 1..45 are outside
\* excluded_numbers, and otherwise a bundle of count combinations labelled
\* with the first count labels, each 6 distinct numbers outside
\* excluded_numbers.
C13_EmptyBundleOrCountCombinations ==
    GeneratedExcluding =>
        /\ combinations.type = "dict"
        /\ IF Cardinality(Pool) < 6
           THEN combinations.items = <<>>
           ELSE /\ Len(combinations.items) = count
                /\ combinations.items # <<>>
                /\ \A k \in 1..Len(combinations.items) :
                      /\ combinations.items[k][1] = C6Labels[k]
                      /\ IsNumberSet(combinations.items[k][2])
                      /\ Range(combinations.items[k][2]) \subseteq Pool

C13_Witness ==
    /\ GeneratedExcluding
    /\ exclude = List(SetToSortedSeq(1..40))
    /\ combinations = Dict(<<>>)

C13_WitnessEnough ==
    /\ GeneratedExcluding
    /\ exclude = List(SetToSortedSeq(1..30))
    /\ count = 5
    /\ Len(combinations.items) = 5

\* the sets and lists the two functions are called with
ExcludedWith == {e \in GenExcludes \cup ExcludedNumbers : e.type \in {"set", "list"}}

\* the results each function returns over the states of the random module
GeneratorResults ==
    [excl \in ExcludedWith, cnt \in 1..5 |->
        {generate_lotto_numbers(excl, cnt, r).ret : r \in States(cnt)}]

ExcludingResults ==
    [excl \in ExcludedWith, cnt \in 1..5 |->
        {generate_excluding_numbers(excl, cnt, r).ret : r \in States(cnt)}]

ResultsOfGenerator(excl, cnt) == GeneratorResults[excl, cnt]

ResultsOfExcluding(excl, cnt) == ExcludingResults[excl, cnt]

\* a bare combination as the bundle that holds it under the label A
AsBundle(value) ==
    IF value.type # "list" THEN value
    ELSE IF value.items = <<>> THEN Dict(<<>>)
    ELSE Dict(<< <<"A", value.items>> >>)

CalledWithSet ==
    /\ pc = "done"
    /\ op \in {"generate_lotto_numbers", "generate_excluding_numbers"}
    /\ exclude.type \in {"set", "list"}

\* C14 as stated: for every excluded set and every count in 1..5 the
\* results generate_excluding_numbers(excluded, count) returns are the
\* results generate_lotto_numbers(exclude=excluded, count=count) returns,
\* in shape, labels and number sets.
C14_ExcludingIsGenerator ==
    CalledWithSet =>
        /\ ResultsOfExcluding(exclude, count) = ResultsOfGenerator(exclude, count)
        /\ GeneratedExcluding => combinations \in ResultsOfGenerator(exclude, count)

\* C14 as the code has it: for every count in 2..5 the two functions return
\* the same bundles; for count 1 generate_lotto_numbers returns a bare
\* combination (or []) where generate_excluding_numbers returns the bundle
\* that holds the same combination under the label A (or {}).
C14_ExcludingIsGeneratorAsBundle ==
    CalledWithSet =>
        /\ ResultsOfExcluding(exclude, count) =
              {AsBundle(g) : g \in ResultsOfGenerator(exclude, count)}
        /\ (count >= 2) =>
              ResultsOfExcluding(exclude, count) = ResultsOfGenerator(exclude, count)
        /\ GeneratedExcluding =>
              combinations \in {AsBundle(g) : g \in ResultsOfGenerator(exclude, count)}
        /\ Generated =>
              AsBundle(combinations) \in ResultsOfExcluding(exclude, count)

C14_Witness ==
    /\ GeneratedExcluding
    /\ exclude = Set(1..39)
    /\ count = 1
    /\ combinations = Dict(<< <<"A", <<40, 41, 42, 43, 44, 45>> >> >>)

(***************************************************************************)
(* Properties of the pages over the database (SpecApp).                    *)
(***************************************************************************)
\* the bundle a row was stored with, as its <<label, numbers>> pairs
StoredBundle(row) == row.numbers.json.items

\* the six winning numbers and the bonus the site shows for a draw
SiteWinning(draw_number) == SubSeq(SiteBalls(draw_number), 1, 6)

SiteBonus(draw_number) == SiteBalls(draw_number)[7]

TierRanks == <<"1st", "2nd", "3rd", "4th", "5th">>

\* the best tier among the combinations of a bundle against a draw
BestTier(bundle, draw_number) ==
    LET tiers == {check_winning(bundle[k][2], SiteWinning(draw_number),
                                SiteBonus(draw_number)) : k \in 1..Len(bundle)}
    IN  IF tiers \subseteq {"no-win"} THEN "no-win"
        ELSE TierRanks[CHOOSE r \in 1..5 :
                          /\ TierRanks[r] \in tiers
                          /\ \A q \in 1..(r - 1) : TierRanks[q] \notin tiers]

\* C15: after a bulk check, while the site shows the draws, the status of
\* each purchase of the user is the best tier among the check_winning
\* results of all its combinations, whatever their order, and no-win when
\* none of them wins.
C15_BestOfCombinations ==
    (op = "bulk_check" /\ page.call.site = "drawn") =>
        \A i \in 1..Len(purchased) :
            (purchased[i].user_id = user_id.val) =>
                purchased[i].winning_status =
                    BestTier(StoredBundle(purchased[i]), purchased[i].draw_number)

PrizeTiers == {"1st", "2nd", "3rd", "4th", "5th", "no-win"}

PrizeStatuses == PrizeTiers \cup {"unconfirmed"}

RowsOf(rows) == {rows[i] : i \in 1..Len(rows)}

\* one step of a table: every status is one of the seven values, a row
\* that is new is unconfirmed, and a status only changes in a bulk check,
\* to a tier
StatusStep(before, after, bulk) ==
    \A row \in RowsOf(after) :
        /\ row.winning_status \in PrizeStatuses
        /\ (\A old \in RowsOf(before) : old.id # row.id) =>
              row.winning_status = "unconfirmed"
        /\ \A old \in RowsOf(before) :
              (old.id = row.id /\ old.winning_status # row.winning_status) =>
                  /\ bulk
                  /\ row.winning_status \in PrizeTiers

\* the steps of a bulk check, of this session or of another
BulkOps == {"bulk_check", "bulk_check_wait", "other_bulk_check"}

\* C16: every stored purchase and recommendation has a status among 1st,
\* 2nd, 3rd, 4th, 5th, no-win and unconfirmed; a record is unconfirmed when
\* it is created and stays so until a bulk check overwrites the status with
\* a tier.
C16_StatusDomain ==
    [][ /\ StatusStep(purchased, purchased', op' \in BulkOps)
        /\ StatusStep(recommended, recommended', op' \in BulkOps) ]_vars

C16_Witness ==
    /\ op = "bulk_check"
    /\ \E i \in 1..Len(purchased) :
          /\ purchased[i].user_id = user_id.val
          /\ purchased[i].winning_status = "unconfirmed"
    /\ \E i \in 1..Len(recommended) :
          recommended[i].winning_status = "unconfirmed"

\* the records a history page lists, with the bundles they were stored with
ListedWith(records) ==
    [k \in 1..Len(records) |->
        [id |-> records[k].id,
         combinations |-> Dict(StoredBundle(records[k])),
         winning_status |-> records[k].winning_status]]

\* C17: a bundle stored in a purchase or a recommendation is read back by
\* the purchase history and the recommendation history as the same mapping
\* from labels to number lists, in the same label order: the page lists
\* every record of the user with the bundle it was stored with.
C17_BundleReadBack ==
    /\ (op = "purchase_history" /\ page.selected_draw = AllDraws) =>
          /\ page.status \in {"empty", "shown"}
          /\ page.shown = ListedWith(Reversed(OfUser(purchased, user_id.val)))
    /\ (op = "recommendation_history") =>
          /\ page.status \in {"empty", "shown"}
          /\ Len(page.shown) = Len(OfUser(recommended, user_id.val))
          /\ \A k \in 1..Len(page.shown) :
                \E row \in RowsOf(OfUser(recommended, user_id.val)) :
                    /\ row.id = page.shown[k].id
                    /\ page.shown[k].combinations = Dict(StoredBundle(row))

\* C19: when the draw lookup misses the cache and the fetch succeeds, the
\* numbers shown, the cached record and the numbers kept for the
\* comparison are the six winning numbers and the bonus that
\* fetch_winning_numbers returned.
C19_FetchedNumbersUsed ==
    (op = "draw_lookup" /\ ~page.call.hit /\ page.call.site = "drawn") =>
        LET draw == page.call.draw_input
            numbers == SiteWinning(draw)
            bonus == SiteBonus(draw)
        IN  /\ page.status = "shown"
            /\ page.shown = << [i \in 1..6 |-> format_number(numbers[i])],
                               format_number(bonus) >>
            /\ \E k \in 1..Len(draw_results) :
                  /\ draw_results[k].draw_number = draw
                  /\ draw_results[k].winning_numbers = json_dumps(List(numbers))
                  /\ draw_results[k].bonus_number = PyInt(bonus)
            /\ current_winning = [draw_number |-> draw,
                                  winning_numbers |-> List(numbers),
                                  bonus_number |-> PyInt(bonus)]

\* C20: once a draw is in the cache, a lookup of that draw fetches nothing
\* and shows and keeps the cached winning numbers and bonus; the cache never
\* holds two records of one draw number.
C20_CachedDrawIsUsed ==
    /\ \A j, k \in 1..Len(draw_results) :
          (draw_results[j].draw_number = draw_results[k].draw_number) => j = k
    /\ (op = "draw_lookup" /\ page.call.hit) =>
          LET cached == CachedRows(draw_results, page.call.draw_input)[1]
          IN  /\ page.call.fetched = <<>>
              /\ page.status = "shown"
              /\ current_winning =
                    [draw_number |-> page.call.draw_input,
                     winning_numbers |-> winning_numbers_get(cached.winning_numbers),
                     bonus_number |-> cached.bonus_number]

\* C21: when fetch_winning_numbers returns None for a draw that is not
\* cached, the draw lookup ends with the handled message that the winning
\* numbers cannot be looked up and the bulk check goes on without an
\* exception; no cache record is stored and no record's status changes.
C21_FetchFailureHandled ==
    [][ /\ (op' = "draw_lookup" /\ ~page'.call.hit
                                /\ page'.call.site \in {"down", "no balls"}) =>
              /\ page'.status = "not found"
              /\ draw_results' = draw_results
              /\ purchased' = purchased
              /\ recommended' = recommended
        /\ (op' = "bulk_check" /\ page'.call.fetched # <<>>
                               /\ page'.call.site \in {"down", "no balls"}) =>
              /\ page'.status = "shown"
              /\ draw_results' = draw_results
              /\ purchased' = purchased
              /\ recommended' = recommended ]_vars

\* the windows of a segment that are two decimal digits with a value in
\* 1..45
DigitWindows(segment) ==
    {k \in Windows(segment) :
        /\ segment[2 * k - 1] \in Digits
        /\ segment[2 * k] \in Digits
        /\ IntOfDigits(SubSeq(segment, 2 * k - 1, 2 * k)) \in 1..45}

\* combination c holds exactly the values of the digit windows of segment
DigitNumbers(c, segment) ==
    LET valid == DigitWindows(segment)
        vals == [k \in valid |-> IntOfDigits(SubSeq(segment, 2 * k - 1, 2 * k))]
    IN  \A x \in Range(c) \cup {vals[k] : k \in valid} :
            Cardinality({i \in 1..Len(c) : c[i] = x})
                = Cardinality({k \in valid : vals[k] = x})

\* C22: in parse_qr_url a 2-character window contributes a number only if
\* both of its characters are decimal digits and its value is in 1..45; a
\* window with a sign, a space or a letter contributes nothing, so the
\* combinations decoded are the values of the digit windows of the segments
\* that have 6 of them.
C22_OnlyDigitWindowsContribute ==
    ReachedFinalTest =>
        LET five == FirstFive
            yielding == {k \in 1..Len(five) :
                            Cardinality(DigitWindows(five[k])) = 6}
            inOrder == SetToSortedSeq(yielding)
        IN  /\ (yielding = {}) => (result = None)
            /\ (result # None) =>
                  /\ Len(result.numbers) = Cardinality(yielding)
                  /\ \A j \in 1..Len(result.numbers) :
                        DigitNumbers(result.numbers[j], five[inOrder[j]])

(***************************************************************************)
(* Properties of the recommendation that follows a decode (SpecQR).        *)
(***************************************************************************)
Decoded == op = "parse_qr_url" /\ pc \in {"done", "saved", "recommended"}
                               /\ result # None

\* C23: the numbers of a successfully decoded URL are at most 30 in all,
\* and the recommendation that excludes them always gives 5 combinations,
\* each 6 distinct sorted numbers of 1..45 with none of the decoded numbers.
C23_RecommendationNeverRunsOut ==
    Decoded =>
        /\ Cardinality(UnionOf(result.numbers)) <= 30
        /\ (pc = "recommended") =>
              /\ combinations.type = "list"
              /\ Len(combinations.items) = 5
              /\ \A k \in 1..5 :
                    /\ IsNumberSet(combinations.items[k])
                    /\ \A j \in 1..Len(result.numbers) :
                          Range(combinations.items[k]) \cap Range(result.numbers[j]) = {}

C23_Witness ==
    /\ Decoded
    /\ pc = "recommended"
    /\ Len(result.numbers) = 5
    /\ Cardinality(UnionOf(result.numbers)) = 30
    /\ Len(combinations.items) = 5
    /\ combinations.items[1] # combinations.items[2]

(***************************************************************************)
(* Frame of the bulk check (SpecApp).                                      *)
(***************************************************************************)
\* the rows of a table whose status differs before and after a step
StatusSet(before, after) ==
    {i \in 1..Len(before) : after[i].winning_status # before[i].winning_status}

\* no cached result and no result from the site for the draw
NoResultFor(draw_number, site) ==
    /\ CachedRows(draw_results, draw_number) = <<>>
    /\ site \in {"down", "no balls"}

\* the records whose status the bulk check had set when the step began
CheckedBefore == IF waiting = None THEN 0 ELSE waiting.checked

\* C24: a bulk check leaves the status of every recommendation without a
\* draw number and of every record whose draw has no available winning
\* result as it was, and the totals it shows count the records whose status
\* it set: total_checked = total_winning + total_losing = that number.
\* Stated for each step of the handler, from the button or from an answer
\* of the site to the next wait or the end.
C24_BulkCheckFrame ==
    [][ (op' \in {"bulk_check", "bulk_check_wait"}) =>
          /\ Len(purchased') = Len(purchased)
          /\ Len(recommended') = Len(recommended)
          /\ \A i \in 1..Len(recommended) :
                (~Truthy(recommended[i].draw_number)) =>
                    recommended'[i].winning_status = recommended[i].winning_status
          /\ \A i \in 1..Len(purchased) :
                NoResultFor(purchased[i].draw_number, page'.call.site) =>
                    purchased'[i].winning_status = purchased[i].winning_status
          /\ (op' = "bulk_check_wait") =>
                /\ waiting'.checked = waiting'.winning + waiting'.losing
                /\ waiting'.checked = CheckedBefore
                      + Cardinality(StatusSet(purchased, purchased'))
                      + Cardinality(StatusSet(recommended, recommended'))
          /\ (op' = "bulk_check" /\ page'.status = "shown") =>
                /\ page'.shown[1] = page'.shown[2] + page'.shown[3]
                /\ page'.shown[1] = CheckedBefore
                      + Cardinality(StatusSet(purchased, purchased'))
                      + Cardinality(StatusSet(recommended, recommended')) ]_vars

C24_Witness ==
    /\ op = "bulk_check"
    /\ page.status = "shown"
    /\ page.shown = <<0, 0, 0>>
    /\ \E i \in 1..Len(recommended) :
          /\ recommended[i].user_id = user_id.val
          /\ recommended[i].draw_number = None
          /\ recommended[i].winning_status = "unconfirmed"
    /\ \E i \in 1..Len(purchased) : purchased[i].user_id # user_id.val

(***************************************************************************)
(* Isolation of the users' records (SpecApp).                              *)
(***************************************************************************)
\* the rows of a table that belong to someone else than the logged-in user
OthersRows(rows) == SelectSeq(rows, LAMBDA row : row.user_id # user_id.val)

OwnIds(rows) == {rows[i].id : i \in {j \in 1..Len(rows) : rows[j].user_id = user_id.val}}

\* a delete of the records named ids by the logged-in user removes the
\* named records of this user and nothing else
DeleteKeepsOthers(rows) ==
    \A ids \in SUBSET IdsOf(rows) :
        LET after == DeleteSelected(rows, SetToSortedSeq(ids), user_id.val)
        IN  /\ OthersRows(after) = OthersRows(rows)
            /\ IdsOf(after) = IdsOf(rows) \ (ids \cap OwnIds(rows))

\* C25: whatever the logged-in user lists, deletes or bulk-checks, only the
\* purchases and recommendations with this user's id are read, modified or
\* deleted: the records of the others stay as they are, a history page
\* lists own records only and is empty without them, the bulk check asks
\* for the draws of own purchases only, and a delete that names the id of
\* another user's record leaves that record in place.
C25_OwnRecordsOnly ==
    [][ (op' \in {"purchase_history", "recommendation_history", "bulk_check",
                  "bulk_check_wait"}) =>
          /\ OthersRows(purchased') = OthersRows(purchased)
          /\ OthersRows(recommended') = OthersRows(recommended)
          /\ (op' = "purchase_history") =>
                /\ (OwnIds(purchased) = {}) => page'.status = "empty"
                /\ \A k \in 1..Len(page'.shown) :
                      page'.shown[k].id \in OwnIds(purchased)
          /\ (op' = "recommendation_history") =>
                /\ (OwnIds(recommended) = {}) => page'.status = "empty"
                /\ \A k \in 1..Len(page'.shown) :
                      page'.shown[k].id \in OwnIds(recommended)
          /\ (op' \in {"bulk_check", "bulk_check_wait"}) =>
                \A k \in 1..Len(page'.call.fetched) :
                    \E i \in 1..Len(purchased) :
                        /\ purchased[i].user_id = user_id.val
                        /\ purchased[i].draw_number = page'.call.fetched[k]
          /\ DeleteKeepsOthers(purchased)
          /\ DeleteKeepsOthers(recommended) ]_vars

C25_Witness ==
    /\ op = "bulk_check"
    /\ page.call.fetched = <<1100>>
    /\ \E i, j \in 1..Len(purchased) :
          /\ purchased[i].user_id = user_id.val
          /\ purchased[i].draw_number = 1100
          /\ purchased[j].user_id # user_id.val
          /\ purchased[j].draw_number = 1101
          /\ purchased[j].id \notin OwnIds(purchased)
    /\ \E i \in 1..Len(recommended) : recommended[i].user_id # user_id.val

====
